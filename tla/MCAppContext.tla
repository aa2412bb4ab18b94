---------------------------- MODULE MCAppContext ----------------------------
(***************************************************************************)
(* AppContext for TLC: two threads of the server and one of the database    *)
(* pool, and a queue short enough to be full.                               *)
(***************************************************************************)
EXTENDS AppContext

CONSTANTS io1, io2, db1

MCIoThreads == {io1, io2}
MCDbThreads == {db1}
MCWorkers   == {io1, io2, db1}
MCProducers == {io1, io2, db1, Main, Flusher}
MCConsumers == {Backend}
MCItems     == Messages
=============================================================================
