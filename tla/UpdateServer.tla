---------------------------- MODULE UpdateServer ----------------------------
(***************************************************************************)
(* The update server, update_server/server.py: one thread accepts devices, *)
(* the command loop sends a heartbeat to every device, waits for its       *)
(* answer, sends the patch, and closes at the end the devices that failed. *)
(* conns is the dictionary of connections in its insertion order; Python   *)
(* raises an exception, which nothing catches, when a dictionary changes   *)
(* size while it is iterated.                                              *)
(***************************************************************************)
EXTENDS Stream

CONSTANTS Packet,     \* packets the operator may load, sequences of bytes
          MaxCommands \* model bound: commands the operator gives

ASSUME PacketAssumption == Packet \subseteq Seq(Byte) \ {<<>>}   \* a packet has a header

VARIABLES
  conns,      \* self.conns
  spc,        \* where the command loop is
  todo,       \* connections the iteration has still to visit
  size,       \* number of connections when the iteration began
  should_close,
  packet,     \* the packet being sent, or <<>> for the alive command
  sent,       \* history: packets given to sendall on each connection
  commands    \* number of commands given

server == <<conns, spc, todo, size, should_close, packet, sent, commands>>

ServerInit ==
  /\ conns = <<>> /\ spc = "idle" /\ todo = <<>> /\ size = 0 /\ should_close = {}
  /\ packet = <<>> /\ sent = [c \in Conn |-> <<>>] /\ commands = 0

Signature == [i \in 1 .. SignLen |-> Base - 1]

(* The bytes of a LOAD: command, length, signature, packet. *)
Frame_unsplit(p) ==
  LET sz == SignLen + Len(p)
  IN  <<LOAD, sz \div Base, sz>> \o Signature \o p

Frame_unsigned(p) ==
  <<LOAD, Len(p) \div Base, Len(p) % Base>> \o Signature \o p

Frame(p) ==
  LET sz == SignLen + Len(p)
  IN  <<LOAD, sz \div Base, sz % Base>> \o Signature \o p

(* The interpreter exits, on the q command or on an uncaught exception.    *)
Exit ==
  /\ spc' = "exit" /\ listening' = FALSE
  /\ srv' = {} /\ backlog' = <<>>
  /\ UNCHANGED <<conns, todo, size, should_close, packet, sent, commands, down, up, dev, lost>>
-----------------------------------------------------------------------------
accept ==
  /\ spc # "exit" /\ backlog # <<>>
  /\ conns' = Append(conns, Head(backlog))
  /\ backlog' = Tail(backlog)
  /\ UNCHANGED <<spc, todo, size, should_close, packet, sent, commands,
                 down, up, dev, srv, lost, listening>>

(* The load and alive commands begin to visit the connections. *)
Begin(p) ==
  /\ spc = "idle" /\ commands < MaxCommands
  /\ spc' = "loop" /\ todo' = conns /\ size' = Len(conns)
  /\ should_close' = {} /\ packet' = p
  /\ commands' = commands + 1
  /\ UNCHANGED <<conns, sent, streams>>

(* struct.pack('B', ...) of a high byte of Base or more raises. *)
load(p) ==
  IF SignLen + Len(p) >= Base * Base THEN spc = "idle" /\ Exit ELSE Begin(p)

check_alive == Begin(<<>>)

quit == spc = "idle" /\ Exit

(* The head of the loop: the exception, the end, or the next heartbeat.    *)
iteration_error ==
  /\ spc = "loop" /\ Len(conns) # size
  /\ Exit

(* The entries of the dictionary that close_client leaves, in their order. *)
Without(s, S) ==
  LET kept[i \in 0 .. Len(s)] ==
        IF i = 0 THEN <<>>
        ELSE IF s[i] \in S THEN kept[i - 1] ELSE Append(kept[i - 1], s[i])
  IN  kept[Len(s)]

close_clients ==
  /\ spc = "loop" /\ Len(conns) = size /\ todo = <<>>
  /\ conns' = Without(conns, should_close)
  /\ srv' = srv \ should_close
  /\ spc' = "idle"
  /\ UNCHANGED <<todo, size, should_close, packet, sent, commands,
                 down, up, dev, lost, listener>>

Drop ==
  /\ should_close' = should_close \cup {Head(todo)}
  /\ todo' = Tail(todo) /\ spc' = "loop"

(* sendall to an end that is closed or torn down may raise or succeed.     *)
Put(c, bytes) == down' = IF Connected(c) THEN [down EXCEPT ![c] = @ \o bytes] ELSE down

send_heartbeat ==
  /\ spc = "loop" /\ Len(conns) = size /\ todo # <<>>
  /\ \/ /\ Put(Head(todo), <<HEARTBEAT>>)
        /\ spc' = "answer"
        /\ UNCHANGED <<todo, should_close>>
     \/ /\ ~Connected(Head(todo))
        /\ Drop /\ UNCHANGED down
  /\ UNCHANGED <<conns, size, packet, sent, commands, up, dev, srv, lost, listener>>

(* recv(128) returns all that has arrived; unpacking more than one byte    *)
(* raises, which check_client_alive takes for a dead device.               *)
receive_answer ==
  LET c == Head(todo)
  IN  /\ spc = "answer" /\ up[c] # <<>>
      /\ up' = [up EXCEPT ![c] = <<>>]
      /\ IF up[c] = <<HEARTBEAT>>
         THEN /\ spc' = IF packet = <<>> THEN "loop" ELSE "send"
              /\ todo' = IF packet = <<>> THEN Tail(todo) ELSE todo
              /\ UNCHANGED should_close
         ELSE Drop
      /\ UNCHANGED <<conns, size, packet, sent, commands, down, dev, srv, lost, listener>>

receive_nothing ==
  /\ spc = "answer" /\ up[Head(todo)] = <<>> /\ ~Connected(Head(todo))
  /\ Drop
  /\ UNCHANGED <<conns, size, packet, sent, commands, streams>>

send_packet ==
  LET c == Head(todo)
  IN  /\ spc = "send"
      /\ \/ /\ Put(c, Frame(packet))
            /\ sent' = [sent EXCEPT ![c] = Append(@, packet)]
            /\ spc' = "loop" /\ todo' = Tail(todo)
            /\ UNCHANGED should_close
         \/ /\ ~Connected(c)
            /\ Drop /\ UNCHANGED <<down, sent>>
      /\ UNCHANGED <<conns, size, packet, commands, up, dev, srv, lost, listener>>

LoopStep ==
  \/ iteration_error \/ close_clients \/ send_heartbeat
  \/ receive_answer \/ receive_nothing \/ send_packet

ServerNext ==
  \/ accept
  \/ \E p \in Packet : load(p)
  \/ check_alive \/ quit
  \/ LoopStep
=============================================================================
