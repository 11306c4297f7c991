---------------------------- MODULE MCWorldSockets ----------------------------
(* One login on one network thread, with its realm socket alone, or with    *)
(* its realm and its instance socket.                                       *)
EXTENDS WorldSockets
CONSTANTS realm, instance1

RealmAlone == [s \in {realm} |-> realm]
RealmAndInstance == [s \in {realm, instance1} |-> realm]
=============================================================================
