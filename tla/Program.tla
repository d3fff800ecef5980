------------------------------ MODULE Program -------------------------------
(***************************************************************************)
(* main() (src/src/main.cpp): the command line, the ini file, the logger   *)
(* and the construction of class Process; then its life, which is module   *)
(* Process; then the clean-up of telemetry, after which the destructor of  *)
(* Process waits for the threads that an exception has left running.       *)
(*                                                                         *)
(* A std::optional is the set of its values, here too.                     *)
(***************************************************************************)
EXTENDS Process, ProgramOptions

CONSTANT IniFiles           \* what the ini file may say

VARIABLES
    program,                \* where main() is
    ini,                    \* what was read from the ini file
    programOptions,         \* moved into Process when it is constructed
    provider                \* OpenTelemetry's global provider of loggers

startUpVars == <<ini, programOptions>>
programVars == <<vars, program, startUpVars, provider>>

ProgramInit ==
    /\ ProcessInit
    /\ program = "commandLine"
    /\ ini = {} /\ programOptions = {}
    /\ provider = "noop"

-----------------------------------------------------------------------------
(* Before there is a Process                                               *)

\* --help; no ini file, or one that does not exist; or a usable command line.
CommandLine ==
    /\ program = "commandLine"
    /\ program' \in {"helped", "failed", "options"}
    /\ UNCHANGED <<vars, startUpVars, provider>>

\* parseIniFile: the file may have gone since the command line was parsed.
ReadOptions ==
    /\ program = "options"
    /\ \/ /\ \E file \in IniFiles :
                /\ ini' = {file}
                /\ programOptions' = Optional(~RefusesIniFile(file), ParseIniFile(file))
          /\ program' = IF programOptions' = {} THEN "failed" ELSE "logger"
       \/ /\ programOptions' = {DefaultOptions}
          /\ program' = "logger"
          /\ UNCHANGED ini
    /\ UNCHANGED <<vars, provider>>

\* Logger::initialize.  It throws if the build lacks the exporter, and the
\* handler's second logger of the name "console" then throws out of main().
InitializeLogger ==
    /\ program = "logger"
    /\ \E options \in programOptions :
          IF ~options.exportLogsWithHTTP /\ ~WithOTLPGRPC
          THEN program' = "crashed" /\ UNCHANGED provider
          ELSE /\ program' = "construct"
               /\ provider' = IF options.exportLogs THEN "sdk" ELSE provider
    /\ UNCHANGED <<vars, startUpVars>>

\* Logger::cleanup
CleanedUp == IF provider = "sdk" THEN "null" ELSE provider

\* The constructor of Process, which moves the options.  The constructors of
\* Subscriber and Service throw without gRPC options.
Construct ==
    /\ program = "construct"
    /\ \E options \in programOptions :
          IF options.hasGRPCOptions
          THEN program' = "run" /\ UNCHANGED provider
          ELSE program' = "failed" /\ provider' = CleanedUp
    /\ ini' = {} /\ programOptions' = {}
    /\ UNCHANGED vars

StartUp == CommandLine \/ ReadOptions \/ InitializeLogger \/ Construct

-----------------------------------------------------------------------------
(* The life and the end of Process                                         *)

\* start() has returned, or has been left by an exception.
IsStarted == (main = "join" /\ Untaken = {}) \/ main = "joinAfterFailure"

\* Mutation: telemetry is cleaned up as soon as the import has been stopped.
CleanUpEarly ==
    /\ program = "run" /\ main \in {"join", "joinAfterFailure"} /\ Alive
    /\ program' = "cleaned"
    /\ provider' = CleanedUp
    /\ UNCHANGED <<vars, startUpVars>>

\* Metrics::cleanup, which finds no metrics to clean, and Logger::cleanup.
CleanUp ==
    /\ program = "run" /\ IsStarted /\ Alive
    /\ program' = "cleaned"
    /\ provider' = CleanedUp
    /\ UNCHANGED <<vars, startUpVars>>

\* A thread of Process.
Runs(A) ==
    /\ program \in {"run", "cleaned"}
    /\ A
    /\ UNCHANGED <<program, startUpVars, provider>>

\* The destructor of Process comes after the clean-up.
MainThread == Main /\ (program = "run" => ~IsStarted)

ProgramNext ==
    \/ StartUp
    \/ CleanUp
    \/ Runs(Signal)
    \/ Runs(MainThread)
    \/ Runs(Cleaner)
    \/ Runs(ProcessorEnds)
    \/ Runs(ServiceThread)
    \/ Runs(SubscriberStep(Acquire))
    \/ Runs(SubscriberStep(Feed))

\* As for Process; main() itself is one of its threads.
ProgramFairness ==
    /\ WF_programVars(StartUp \/ CleanUp \/ Runs(MainThread))
    /\ WF_programVars(Runs(Cleaner))
    /\ WF_programVars(Runs(ProcessorEnds))
    /\ WF_programVars(Runs(ServiceThread))
    /\ WF_programVars(Runs(SubscriberStep(Acquire)))
    /\ WF_programVars(Runs(SubscriberStep(OnCancelled)))

ProgramSpec == ProgramInit /\ [][ProgramNext]_programVars /\ ProgramFairness

-----------------------------------------------------------------------------
(* Properties                                                              *)

ProgramTypeOK ==
    /\ TypeOK
    /\ program \in {"commandLine", "options", "logger", "construct", "run",
                    "cleaned", "helped", "failed", "crashed"}
    /\ \A file \in ini : file \in IniFiles
    /\ \A options \in programOptions :
          \/ options = DefaultOptions
          \/ \E file \in IniFiles : options = ParseIniFile(file)
    /\ provider \in {"noop", "sdk", "null"}

\* What the threads rely on, and what the ini file asks for.
IsUsable(options) ==
    /\ options.maximumImportQueueSize > 0
    /\ options.maximumDuration > 0
    /\ options.maximumNumberOfConcurrentStreams > 0
    /\ options.server.accessToken # {} =>
          options.server.serverKey # {} /\ options.server.serverCertificate # {}
    /\ options.client.accessToken # {} => options.client.serverCertificate # {}
    /\ ~options.exportLogsWithHTTP => WithOTLPGRPC

\* Options that parseIniFile accepts can be worked with: the queue holds a
\* packet, packets stay for a time, streams are allowed; the logger can be
\* made; and an access token is never accepted without the certificates that
\* make Service::start build a secured server, because an unsecured one
\* checks no token and an unsecured client sends none.
AcceptedOptionsAreUsable ==
    \A options \in programOptions : options.hasGRPCOptions => IsUsable(options)

\* main() never ends by an exception that leaves it: the error handler for
\* the logger, which itself throws, is out of reach, because parseIniFile
\* has refused what Logger::initialize would refuse.
StartUpNeverCrashes == program # "crashed"

\* The sink of a logger that exports looks up the global provider for every
\* record and calls it through a pointer that is null after the clean-up.
\* By then no thread is left that might log, if start() has returned; if it
\* was left by the subscriber's exception, the cleaner and the subscriber
\* have ended, and only the processor and the service thread may be left.
QuietAfterCleanUp ==
    provider = "null" /\ program = "cleaned" =>
        /\ cleaner = "ended" /\ acquirer \in {"ended", "failed"}
        /\ main = "join" => processor = "ended" /\ serviceThread = "ended"

-----------------------------------------------------------------------------
(* What a comment says and the code does not do, refuted by a run.         *)

RetentionKey == <<"Service", "maximumPacketRetentionDurationInSeconds">>

WithRetention(file, seconds) ==
    [key \in DOMAIN file \cup {RetentionKey} |->
        IF key = RetentionKey THEN seconds ELSE file[key]]

\* streamDequeMapOptions.hpp line 38, `By default this is 5 minutes': an ini
\* file that says nothing of the retention is refused only if it would be
\* refused with five minutes, too.
DefaultRetentionIsFiveMinutes ==
    \A file \in ini :
        RetentionKey \notin DOMAIN file /\ program = "failed"
            => RefusesIniFile(WithRetention(file, DefaultDurationInSeconds))
=============================================================================
