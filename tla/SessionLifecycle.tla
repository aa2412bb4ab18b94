--------------------------- MODULE SessionLifecycle ---------------------------
(***************************************************************************)
(* What a session promises the server that owns it, as seen through         *)
(* Base/Session.hpp: it is shut down once, by itself or by the server; its  *)
(* socket is closed some time after; it is released, that is destroyed by   *)
(* the last of its own callbacks, only when nothing it started is           *)
(* outstanding; and it starts no write once it is shut down.                *)
(***************************************************************************)
VARIABLES
    phase,      \* "open", "closing" (flag set), "closed" (socket), "released"
    writing     \* an asynchronous write is in flight on the socket

vars == <<phase, writing>>

Phases == {"open", "closing", "closed", "released"}

TypeOK == phase \in Phases /\ writing \in BOOLEAN

Init == phase = "open" /\ writing = FALSE

StartWrite ==
    /\ phase = "open" /\ ~ writing
    /\ writing' = TRUE
    /\ UNCHANGED phase

EndWrite ==
    /\ writing
    /\ writing' = FALSE
    /\ UNCHANGED phase

Shutdown ==
    /\ phase = "open"
    /\ phase' = "closing"
    /\ UNCHANGED writing

\* The closing handler may itself hold the last reference.
CloseSocket ==
    /\ phase = "closing"
    /\ phase' \in IF writing THEN {"closed"} ELSE {"closed", "released"}
    /\ UNCHANGED writing

Release ==
    /\ phase = "closed" /\ ~ writing
    /\ phase' = "released"
    /\ UNCHANGED writing

Next == StartWrite \/ EndWrite \/ Shutdown \/ CloseSocket \/ Release

Spec == Init /\ [][Next]_vars /\ WF_vars(CloseSocket) /\ WF_vars(phase # "open" /\ EndWrite)
=============================================================================
