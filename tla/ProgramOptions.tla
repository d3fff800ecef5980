--------------------------- MODULE ProgramOptions ---------------------------
(***************************************************************************)
(* The options of the program (src/src/programOptions.hpp), read from an   *)
(* ini file and passed through the setters of the option classes.          *)
(*                                                                         *)
(* An ini file is a function from keys <<section, name>> to values: texts  *)
(* and numbers.  Of a text it matters whether it is empty, blank, or one   *)
(* of the words and paths that are told apart.  A std::optional is the set *)
(* of its values: {} is nullopt.                                           *)
(*                                                                         *)
(* What throws is `refused'.  The program reports the first refusal and    *)
(* ends, whichever it is, so that their order does not matter.             *)
(***************************************************************************)
EXTENDS Integers

CONSTANTS
    Files,          \* the files there are, as a function from paths to texts
    WithOTLPGRPC    \* whether the build has the gRPC exporters

ASSUME BuildAssumption == WithOTLPGRPC \in BOOLEAN

-----------------------------------------------------------------------------
(* boost::property_tree                                                    *)

MaximumInt == 2147483647
Int32 == (-MaximumInt - 1)..MaximumInt
UInt16 == 0..65535

\* get<std::string>(key, default)
Text(ini, section, name, default) ==
    IF <<section, name>> \in DOMAIN ini THEN ini[<<section, name>>] ELSE default

\* get<T>(key, default): also the default if the value cannot be read as a T.
Number(ini, section, name, T, default) ==
    IF <<section, name>> \in DOMAIN ini /\ ini[<<section, name>>] \in T
    THEN ini[<<section, name>>] ELSE default

\* A section without keys is dropped by the parser.
HasSection(ini, section) == \E key \in DOMAIN ini : key[1] = section

Optional(condition, value) == IF condition THEN {value} ELSE {}

-----------------------------------------------------------------------------
(* gRPC options of the server and of the client                            *)

\* A file that exists and that the setters of certificates and keys accept.
Usable(path) == path \in DOMAIN Files /\ Files[path] # ""

Host(ini, section) == Text(ini, section, "host", "localhost")
Port(ini, section) == Number(ini, section, "port", UInt16, 50000)

\* Of the two files of a pair neither is looked at unless both are given.
IsPair(ini, section, key, certificate) ==
    Text(ini, section, key, "") # "" /\ Text(ini, section, certificate, "") # ""

RefusesPair(ini, section, key, certificate) ==
    /\ IsPair(ini, section, key, certificate)
    /\ \E file \in {key, certificate} : ~Usable(Text(ini, section, file, ""))

HasToken(ini, section) == <<section, "accessToken">> \in DOMAIN ini

\* Mutation: a token is accepted whether or not there is a certificate.
RefusesEmptyToken(ini, section, secured) ==
    HasToken(ini, section) /\ ini[<<section, "accessToken">>] = ""

\* "Must set server certificate to use access token"
RefusesToken(ini, section, secured) ==
    HasToken(ini, section) /\ (~secured \/ ini[<<section, "accessToken">>] = "")

\* The server's key is read from the key named clientKey.
IsServerSecured(ini) == IsPair(ini, "Service", "clientKey", "serverCertificate")

RefusesGRPCServerOptions(ini) ==
    \/ Host(ini, "Service") = ""
    \/ Port(ini, "Service") = 0
    \/ RefusesPair(ini, "Service", "clientKey", "serverCertificate")
    \/ RefusesToken(ini, "Service", IsServerSecured(ini))
    \/ LET path == Text(ini, "Service", "clientCertificate", "")
       IN  path # "" /\ ~Usable(path)

GRPCServerOptions(ini) ==
    [serverKey |-> Optional(IsServerSecured(ini),
                            Text(ini, "Service", "clientKey", "")),
     serverCertificate |-> Optional(IsServerSecured(ini),
                                    Text(ini, "Service", "serverCertificate", "")),
     accessToken |-> Optional(HasToken(ini, "Service"),
                              Text(ini, "Service", "accessToken", ""))]

HasServerCertificate(ini) ==
    Text(ini, "DataPacketSubscriber", "serverCertificate", "") # ""

\* GRPCClientOptions::setHost removes blanks first, the server's does not.
RefusesGRPCClientOptions(ini) ==
    \/ Host(ini, "DataPacketSubscriber") \in {"", " "}
    \/ Port(ini, "DataPacketSubscriber") = 0
    \/ /\ HasServerCertificate(ini)
       /\ ~Usable(Text(ini, "DataPacketSubscriber", "serverCertificate", ""))
    \/ RefusesToken(ini, "DataPacketSubscriber", HasServerCertificate(ini))
    \/ RefusesPair(ini, "DataPacketSubscriber", "clientKey", "clientCertificate")

GRPCClientOptions(ini) ==
    [serverCertificate |->
        Optional(HasServerCertificate(ini),
                 Text(ini, "DataPacketSubscriber", "serverCertificate", "")),
     accessToken |-> Optional(HasToken(ini, "DataPacketSubscriber"),
                              Text(ini, "DataPacketSubscriber", "accessToken", ""))]

-----------------------------------------------------------------------------
(* The service's limits                                                    *)

MaximumConnectionAge(ini) ==
    Number(ini, "Service", "maximumConnectionAgeInMilliSeconds", Int32, 30000)
GracePeriod(ini) ==
    Number(ini, "Service", "maximumConnectionAgeGracePeriodInMilliSeconds",
           Int32, 1000)
MaximumNumberOfConcurrentStreams(ini) ==
    Number(ini, "Service", "maximumNumberOfConcurrentStreams", Int32, 64)

RefusesServiceOptions(ini) ==
    \/ RefusesGRPCServerOptions(ini)
    \/ MaximumConnectionAge(ini) < 1
    \/ GracePeriod(ini) < 0
    \/ MaximumNumberOfConcurrentStreams(ini) < 1

\* Case and blanks are removed before the name is compared.
CompressionAlgorithm(ini) ==
    LET name == Text(ini, "Service", "compressionAlgorithm", "deflate")
    IN  IF name \in {"deflate", "gzip"} THEN name ELSE "none"

-----------------------------------------------------------------------------
(* The retention of packets, in seconds                                    *)

\* StreamDequeMapOptions keeps five minutes, as nanoseconds.
DefaultDurationInSeconds == 300

\* static_cast<int> of a number of seconds counted in nanoseconds: its lowest
\* 32 bits, computed in two halves (10^9 = 15258 * 2^16 + 51712), read as a
\* signed number.
IntOfNanoseconds(seconds) ==
    LET low == seconds * 51712
        high == (seconds * 15258 + low \div 65536) % 65536
    IN  ((IF high < 32768 THEN high ELSE high - 65536) * 65536) + (low % 65536)

\* The default goes through the cast and is then taken for seconds.
MaximumDuration(ini) ==
    Number(ini, "Service", "maximumPacketRetentionDurationInSeconds", Int32,
           IntOfNanoseconds(DefaultDurationInSeconds))

-----------------------------------------------------------------------------
(* The exporters of logs and metrics                                       *)

\* The section that is looked at: HTTP before gRPC, also if its host is empty.
ExporterSection(ini, http, grpc) == IF HasSection(ini, http) THEN http ELSE grpc

\* getOTelCollectorURL makes no URL without a host.
IsExporting(ini, http, grpc) ==
    LET section == ExporterSection(ini, http, grpc)
    IN  HasSection(ini, section) /\ Text(ini, section, "host", "") # ""

\* Mutation: the section for gRPC is read whether or not the build has it.
AcceptsExporter(ini, http, grpc) == FALSE

\* "Recompile with Conan to use gRPC logs exporter option"
RefusesExporter(ini, http, grpc) ==
    ~HasSection(ini, http) /\ HasSection(ini, grpc) /\ ~WithOTLPGRPC

\* exportLogsWithHTTP and exportMetricsWithHTTP are true by default.
IsWithHTTP(ini, http, grpc) ==
    ~(IsExporting(ini, http, grpc) /\ ExporterSection(ini, http, grpc) = grpc)

\* The times are looked at for gRPC, and for HTTP if there is a host.
RefusesMetricsTimes(ini, http, grpc) ==
    LET section == ExporterSection(ini, http, grpc)
    IN  /\ HasSection(ini, section)
        /\ section = http => Text(ini, section, "host", "") # ""
        /\ \/ Number(ini, section, "exportIntervalInMilliSeconds", Int, 15000) <= 0
           \/ Number(ini, section, "exportTimeOutInMilliSeconds", Int, 500) <= 0

-----------------------------------------------------------------------------
(* parseIniFile                                                            *)

MaximumImportQueueSize(ini) ==
    Number(ini, "DataPacketSubscriber", "maximumImportQueueSize", Int32, 4096)

RefusesIniFile(ini) ==
    \/ RefusesGRPCClientOptions(ini)
    \/ MaximumImportQueueSize(ini) < 1
    \/ RefusesServiceOptions(ini)
    \/ MaximumDuration(ini) < 1
    \/ RefusesExporter(ini, "OTelHTTPLogOptions", "OTelGRPCLogOptions")
    \/ RefusesExporter(ini, "OTelHTTPMetricsOptions", "OTelGRPCMetricsOptions")
    \/ RefusesMetricsTimes(ini, "OTelHTTPMetricsOptions", "OTelGRPCMetricsOptions")

\* The default interval between summaries, 900 s, is read back as minutes.
ParseIniFile(ini) ==
    [hasGRPCOptions |-> TRUE,
     client |-> GRPCClientOptions(ini),
     server |-> GRPCServerOptions(ini),
     compressionAlgorithm |-> CompressionAlgorithm(ini),
     maximumNumberOfConcurrentStreams |-> MaximumNumberOfConcurrentStreams(ini),
     maximumDuration |-> MaximumDuration(ini),
     maximumImportQueueSize |-> MaximumImportQueueSize(ini),
     maximumPacketLatency |->
        Number(ini, "DataPacketSubscriber", "maximumLatencyInSeconds", Int32, 360),
     maximumPacketFutureTime |->
        Number(ini, "DataPacketSubscriber", "maximumFutureTimeInMilliseconds",
               Int32, 0),
     printSummaryIntervalInMinutes |->
        Number(ini, "General", "printSummaryIntervalInMinutes", Int32, 900),
     exportLogs |-> IsExporting(ini, "OTelHTTPLogOptions", "OTelGRPCLogOptions"),
     exportLogsWithHTTP |->
        IsWithHTTP(ini, "OTelHTTPLogOptions", "OTelGRPCLogOptions"),
     exportMetrics |->
        IsExporting(ini, "OTelHTTPMetricsOptions", "OTelGRPCMetricsOptions"),
     exportMetricsWithHTTP |->
        IsWithHTTP(ini, "OTelHTTPMetricsOptions", "OTelGRPCMetricsOptions")]

\* struct ProgramOptions as it is default constructed: parseIniFile returns
\* it when the file is gone by then, and only then.
DefaultOptions ==
    [ParseIniFile(<<>>) EXCEPT !.hasGRPCOptions = FALSE,
                               !.maximumDuration = DefaultDurationInSeconds,
                               !.printSummaryIntervalInMinutes = 15]
=============================================================================
