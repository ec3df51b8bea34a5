--------------------------- MODULE PatchDelivery ---------------------------
(***************************************************************************)
(* The update server and the patch service of one device, composed over    *)
(* the TCP connections between them.                                       *)
(***************************************************************************)
EXTENDS PatchClient, UpdateServer

vars == <<client, server, streams>>

Init == StreamInit /\ ClientInit /\ ServerInit

ClientMoves == ClientNext /\ UNCHANGED server
ServerMoves == ServerNext /\ UNCHANGED client
NetworkMoves == (\E c \in Conn : Lose(c)) /\ UNCHANGED <<client, server>>

Next == ClientMoves \/ ServerMoves \/ NetworkMoves

(* A task that can run does, and so does the server's command loop; they   *)
(* need not be started, and the operator need not give commands.           *)
Fairness ==
  /\ \A t \in Task : WF_vars(TaskStep(t) /\ UNCHANGED server)
  /\ WF_vars(LoopStep /\ UNCHANGED client)

Spec == Init /\ [][Next]_vars
FairSpec == Spec /\ Fairness

TypeOK ==
  /\ down \in [Conn -> Seq(Byte)] /\ up \in [Conn -> Seq(Byte)]
  /\ dev \subseteq Conn /\ srv \subseteq Conn /\ lost \subseteq Conn
  /\ listening \in BOOLEAN /\ backlog \in Seq(Conn)
  /\ status \in {"WAIT_FOR_INIT", "RUNNING"} /\ sock \in Conn \cup {NoConn}
  /\ buf \in [1 .. 2 -> Byte]
  /\ task \in [Task -> [pc : {"none", "connect", "wait", "cmd", "dispatch", "len", "alloc",
                              "sign", "pkt", "undefined"},
                        len : 0 .. Base * Base]]
  /\ delivered \in [Conn -> Seq(Seq(Byte))]
  /\ used \subseteq Conn
  /\ conns \in Seq(Conn) /\ todo \in Seq(Conn) /\ should_close \subseteq Conn
  /\ spc \in {"idle", "loop", "answer", "send", "exit"}
  /\ sent \in [Conn -> Seq(Packet)]

(* No receive inside a LOAD fell short and no second task was started.     *)
Clean == ~cut /\ ~overlap

(* s is as far as it goes the same as u. *)
Begins(s, u) == Len(s) <= Len(u) /\ \A i \in 1 .. Len(s) : s[i] = u[i]

(* Everything given to notify_new_patch is what the server sent on that    *)
(* connection, in order and without a gap, and no length is misread, across *)
(* heartbeats, commands, reconnections and teardowns, as long as no        *)
(* receive inside a LOAD falls short and no second task is started.        *)
FramingHolds ==
  Clean => /\ \A c \in Conn : Begins(delivered[c], sent[c])
           /\ \A t \in Task : task[t].pc # "undefined"

(* The server never gives up a device that still serves the connection:    *)
(* answers never pile up, so that unpacking one byte of answer succeeds.   *)
LiveDeviceKept ==
  [][\A c \in Conn : Clean /\ c \in srv /\ c \notin srv' /\ spc' # "exit" => ~Connected(c)]_vars

(* A command of the server terminates: the loop never waits for ever for   *)
(* an answer that will not come.                                           *)
CommandCompletes == spc \in {"loop", "answer", "send"} ~> (spc \in {"idle", "exit"} \/ ~Clean)

(* A packet that was sent reaches notify_new_patch, unless the connection  *)
(* goes away first.                                                        *)
SentIsDelivered ==
  \A c \in Conn :
    (Len(delivered[c]) < Len(sent[c]) /\ Connected(c))
      ~> (Len(delivered[c]) = Len(sent[c]) \/ ~Connected(c) \/ ~Clean)
=============================================================================
