------------------------------- MODULE Stream -------------------------------
(***************************************************************************)
(* The TCP connections between a device (hotpatch/src/patch_service.c) and *)
(* the update server (update_server/server.py): two byte streams each, of  *)
(* bytes in the order they were sent.  A receive returns as many of the    *)
(* bytes it asks for as it likes, at least one; a connection may be torn   *)
(* down at any time, with the bytes in flight.                             *)
(***************************************************************************)
EXTENDS Naturals, Sequences

CONSTANTS Conn,     \* connections, one per successful connect
          NoConn,
          Base,     \* number of values of a byte
          SignLen   \* length of a patch's signature

ASSUME StreamAssumption ==
  /\ NoConn \notin Conn
  /\ Base \in Nat /\ Base > 2          \* the commands are bytes
  /\ SignLen \in Nat \ {0}

Byte == 0 .. Base - 1

VARIABLES
  down, up,    \* bytes on their way to the device, to the server
  dev, srv,    \* connections whose device end, whose server end is open
  lost,        \* connections the network has torn down
  listening,   \* the server process is there
  backlog      \* connections the server has not accepted yet

listener == <<listening, backlog>>
streams == <<down, up, dev, srv, lost, listener>>

EXIT == 0
LOAD == 1
HEARTBEAT == 2

StreamInit ==
  /\ down = [c \in Conn |-> <<>>] /\ up = [c \in Conn |-> <<>>]
  /\ dev = {} /\ srv = {} /\ lost = {}
  /\ listening = TRUE /\ backlog = <<>>

(* What a device's recv for n bytes may return; no outcome while it would  *)
(* block.  The empty sequence is end of file or an error.                  *)
Received(c, n) ==
  IF c \notin dev \/ c \in lost THEN {<<>>}
  ELSE IF down[c] # <<>>
       THEN {SubSeq(down[c], 1, k) : k \in 1 .. IF Len(down[c]) < n THEN Len(down[c]) ELSE n}
  ELSE IF c \notin srv THEN {<<>>}
  ELSE {}

Consume(c, got) ==
  down' = [down EXCEPT ![c] = SubSeq(@, Len(got) + 1, Len(@))]

(* The other end still takes part: a send is certain to succeed.           *)
Connected(c) == c \in dev /\ c \in srv /\ c \notin lost

Lose(c) ==
  /\ c \in (dev \cup srv) \ lost
  /\ lost' = lost \cup {c}
  /\ down' = [down EXCEPT ![c] = <<>>] /\ up' = [up EXCEPT ![c] = <<>>]
  /\ UNCHANGED <<dev, srv, listener>>
=============================================================================
