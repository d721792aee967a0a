---------------------------- MODULE ApiProcess ------------------------------
(***************************************************************************)
(* The api process from its start to its end (index.js): Migrations, and   *)
(* then JobsApi, whose server listens once main() has come to app.listen.  *)
(* One process runs at a time, as docker-compose.yml has it; the database  *)
(* and the topics outlive it.                                              *)
(***************************************************************************)
EXTENDS JobsApi, Migrations

processVars == <<vars, bootVars>>

ProcessInit == Init /\ BootInit

(***************************************************************************)
(* Steps of main(), and a newer image when the process has ended.          *)
(***************************************************************************)
Boots == (BootStep \/ Deploy) /\ UNCHANGED vars

BootFails ==
    /\ BootRejects
    /\ RemoteFailure
    /\ UNCHANGED <<jobs, requests, server, postVars, stops>>

KilledBooting ==
    /\ Booting /\ End
    /\ stops < MaxStops /\ stops' = stops + 1
    /\ UNCHANGED <<jobs, requests, server, postVars, failures>>

(***************************************************************************)
(* app.listen: the first moment a request can come in.                     *)
(***************************************************************************)
Serve == Listen /\ Start /\ UNCHANGED <<jobs, requests, failures, stops>>

Serving ==
    /\ \/ PostNext
       \/ /\ DisconnectProducer \/ CloseServer
          /\ UNCHANGED <<jobs, requests, failures, stops>>
    /\ UNCHANGED bootVars

Stops ==
    /\ (BeginShutdown /\ UNCHANGED bootVars) \/ (Die /\ End)
    /\ stops < MaxStops /\ stops' = stops + 1
    /\ UNCHANGED <<jobs, requests, failures>>

Exits == Exit /\ End /\ UNCHANGED <<jobs, requests, failures, stops>>

ProcessNext ==
    \/ Boots \/ BootFails \/ KilledBooting
    \/ Serve \/ Serving \/ Stops \/ Exits

ProcessSpec == ProcessInit /\ [][ProcessNext]_processVars
-----------------------------------------------------------------------------
(***************************************************************************)
(* Every migration takes effect once and in its order, whatever a start is *)
(* cut short by and however images follow each other, its id is on record  *)
(* exactly if it has taken effect (migrate.js:18-31), and no request is    *)
(* served before the schema of the image is complete (index.js:20-48).     *)
(***************************************************************************)
MigratedOnceBeforeServing ==
    /\ schema = [i \in 1..Len(schema) |-> i]
    /\ recorded = 1..Len(schema)
    /\ server # "down" => Len(schema) = files
=============================================================================
