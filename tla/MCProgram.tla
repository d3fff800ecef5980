----------------------------- MODULE MCProgram ------------------------------
(***************************************************************************)
(* Instances of Program for TLC.  The ini files differ from a sound one in *)
(* one group of keys: the client's credentials, the server's, the limits,  *)
(* or the exporters.                                                       *)
(***************************************************************************)
EXTENDS Program, TLC

CONSTANT Unreadable         \* a text that is not a number

MCFiles == ("pem" :> "a key or a certificate") @@ ("blank" :> "")

\* The key is absent, or has one of the values.
Maybe(section, name, values) ==
    {<<>>} \cup {<<section, name>> :> value : value \in values}

Both(files1, files2) == {f @@ g : f \in files1, g \in files2}

SoundFile ==
    (<<"Service", "maximumPacketRetentionDurationInSeconds">> :> 300)
      @@ (<<"DataPacketSubscriber", "host">> :> "feed")

Credentials(section) ==
    Both(Maybe(section, "serverCertificate", {"pem", "blank", "missing"}),
         Both(Maybe(section, "clientKey", {"pem", "missing"}),
              Both(Maybe(section, "clientCertificate", {"pem", "missing"}),
                   Maybe(section, "accessToken", {"token", ""}))))

ServiceLimits ==
    Both(Maybe("Service", "maximumPacketRetentionDurationInSeconds",
               {0, 1, Unreadable}),
         Both(Maybe("Service", "maximumNumberOfConcurrentStreams", {0, 1}),
              Both(Maybe("Service", "maximumConnectionAgeInMilliSeconds", {0}),
                   Maybe("Service", "compressionAlgorithm", {"gzip", "lz4"}))))

ImportLimits ==
    Both(Maybe("DataPacketSubscriber", "maximumImportQueueSize", {0, 1, Unreadable}),
         Both(Maybe("DataPacketSubscriber", "port", {0, 65536}),
              Maybe("DataPacketSubscriber", "host", {"", " "})))

Exporter(section) ==
    Both(Maybe(section, "host", {"", "collector"}),
         Maybe(section, "exportIntervalInMilliSeconds", {0, 1}))

Exporters ==
    Both(Exporter("OTelHTTPLogOptions"), Exporter("OTelGRPCLogOptions"))
      \cup Both(Exporter("OTelHTTPMetricsOptions"), Exporter("OTelGRPCMetricsOptions"))

MCIniFiles ==
    {<<>>} \cup Both(Credentials("DataPacketSubscriber") \cup Credentials("Service")
                       \cup ServiceLimits \cup ImportLimits \cup Exporters,
                     {SoundFile})
=============================================================================
