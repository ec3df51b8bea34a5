---------------------------- MODULE PatchClient ----------------------------
(***************************************************************************)
(* The patch service of a device, hotpatch/src/patch_service.c: a task     *)
(* that connects, reads one-byte commands and, for LOAD, a two-byte        *)
(* length, a signature and a packet, and answers heartbeats.  All tasks    *)
(* share the static svr_ctx (status, sock) and the static buf.             *)
(*                                                                         *)
(* delivered holds, for each connection, the packets given to              *)
(* notify_new_patch.  cut and overlap are history variables: a receive     *)
(* inside a LOAD returned less than it asked for, and two tasks were alive *)
(* at the same time.                                                       *)
(***************************************************************************)
EXTENDS Stream

CONSTANT Task

VARIABLES status, sock, buf, task, delivered, cut, overlap,
          used     \* connections made so far (each is a new one)

client == <<status, sock, buf, task, delivered, cut, overlap, used>>

Alive(t) == task[t].pc # "none"
Goto(t, pc) == task' = [task EXCEPT ![t].pc = pc]

ClientInit ==
  /\ status = "WAIT_FOR_INIT" /\ sock = NoConn
  /\ buf = [i \in 1 .. 2 |-> 0]
  /\ task = [t \in Task |-> [pc |-> "none", len |-> 0]]
  /\ delivered = [c \in Conn |-> <<>>]
  /\ cut = FALSE /\ overlap = FALSE /\ used = {}

byte2int(b, n) == IF n = 1 THEN b[1] ELSE b[1] * Base + b[2]

Store(got) == buf' = [i \in 1 .. 2 |-> IF i <= Len(got) THEN got[i] ELSE buf[i]]
Short(got, n) == cut' = (cut \/ Len(got) < n)

dis_connect ==
  /\ dev' = IF status # "WAIT_FOR_INIT" THEN dev \ {sock} ELSE dev
  /\ status' = "WAIT_FOR_INIT"
-----------------------------------------------------------------------------
(* linux_patch_service_init: the status is that of the connection, which   *)
(* a task sets only once it has connected.                                 *)
start_patch_service(t) ==
  /\ status = "WAIT_FOR_INIT" /\ ~Alive(t)
  /\ Goto(t, "connect")
  /\ overlap' = (overlap \/ \E u \in Task \ {t} : Alive(u))
  /\ UNCHANGED <<status, sock, buf, delivered, cut, used, streams>>

(* linux_setup_connect; the server's end is in its backlog from here on.   *)
setup_connect(t, c) ==
  /\ task[t].pc = "connect"
  /\ listening /\ c \notin used
  /\ dev' = dev \cup {c} /\ srv' = srv \cup {c}
  /\ used' = used \cup {c} /\ backlog' = Append(backlog, c)
  /\ sock' = c /\ status' = "RUNNING"
  /\ Goto(t, "wait")
  /\ UNCHANGED <<down, up, lost, listening, buf, delivered, cut, overlap>>

connect_failed(t) ==
  /\ task[t].pc = "connect"
  /\ Goto(t, "none")
  /\ UNCHANGED <<status, sock, buf, delivered, cut, overlap, used, streams>>

(* wait_for_patch: the test at the head of the loop, and the receive.      *)
check_status(t) ==
  /\ task[t].pc = "wait"
  /\ Goto(t, IF status = "RUNNING" THEN "cmd" ELSE "none")
  /\ UNCHANGED <<status, sock, buf, delivered, cut, overlap, used, streams>>

receive_cmd(t) ==
  /\ task[t].pc = "cmd"
  /\ \E got \in Received(sock, 1) :
       IF Len(got) # 1
       THEN /\ dis_connect /\ Goto(t, "none")
            /\ UNCHANGED <<down, buf>>
       ELSE /\ Consume(sock, got) /\ Store(got) /\ Goto(t, "dispatch")
            /\ UNCHANGED <<dev, status>>
  /\ UNCHANGED <<up, srv, lost, listener, sock, delivered, cut, overlap, used>>

(* dispatch_patch_command. *)
dispatch_exit(t) ==
  /\ task[t].pc = "dispatch" /\ byte2int(buf, 1) = EXIT
  /\ dis_connect
  /\ Goto(t, "wait")
  /\ UNCHANGED <<down, up, srv, lost, listener, sock, buf, delivered, cut, overlap, used>>

(* The answer; a send to an end that is closed or torn down may fail.      *)
Answer_whole_buffer == <<HEARTBEAT, 0, 0>>

Answer_missing == <<>>

Answer == <<HEARTBEAT>>

dispatch_heartbeat(t) ==
  /\ task[t].pc = "dispatch" /\ byte2int(buf, 1) = HEARTBEAT
  /\ \/ /\ up' = IF Connected(sock) THEN [up EXCEPT ![sock] = @ \o Answer] ELSE up
        /\ status' = "RUNNING"
        /\ UNCHANGED dev
     \/ /\ ~Connected(sock)
        /\ dev' = dev \ {sock} /\ status' = "WAIT_FOR_INIT"
        /\ UNCHANGED up
  /\ Goto(t, "wait")
  /\ UNCHANGED <<down, srv, lost, listener, sock, buf, delivered, cut, overlap, used>>

dispatch_other(t) ==
  /\ task[t].pc = "dispatch" /\ byte2int(buf, 1) \notin {EXIT, HEARTBEAT}
  /\ Goto(t, IF byte2int(buf, 1) = LOAD THEN "len" ELSE "wait")
  /\ UNCHANGED <<status, sock, buf, delivered, cut, overlap, used, streams>>

(* LOAD: the results of its three receives are not examined.               *)
receive_len(t) ==
  /\ task[t].pc = "len"
  /\ \E got \in Received(sock, 2) : Consume(sock, got) /\ Store(got) /\ Short(got, 2)
  /\ Goto(t, "alloc")
  /\ UNCHANGED <<up, dev, srv, lost, listener, status, sock, delivered, overlap, used>>

(* A packet without room for its header is read out of bounds. *)
alloc_packet(t) ==
  LET len == byte2int(buf, 2)
  IN  /\ task[t].pc = "alloc"
      /\ task' = [task EXCEPT ![t] = IF len <= SignLen THEN [pc |-> "undefined", len |-> 0]
                                     ELSE [pc |-> "sign", len |-> len - SignLen]]
      /\ UNCHANGED <<status, sock, buf, delivered, cut, overlap, used, streams>>

receive_sign(t) ==
  /\ task[t].pc = "sign"
  /\ \E got \in Received(sock, SignLen) : Consume(sock, got) /\ Short(got, SignLen)
  /\ Goto(t, "pkt")
  /\ UNCHANGED <<up, dev, srv, lost, listener, status, sock, buf, delivered, overlap, used>>

receive_packet_unnotified(t) ==
  /\ task[t].pc = "pkt"
  /\ \E got \in Received(sock, task[t].len) : Consume(sock, got) /\ Short(got, task[t].len)
  /\ Goto(t, "wait")
  /\ UNCHANGED <<up, dev, srv, lost, listener, status, sock, buf, delivered, overlap, used>>

receive_packet(t) ==
  /\ task[t].pc = "pkt"
  /\ \E got \in Received(sock, task[t].len) :
       /\ Consume(sock, got) /\ Short(got, task[t].len)
       /\ delivered' = [delivered EXCEPT ![sock] = Append(@, got)]
  /\ Goto(t, "wait")
  /\ UNCHANGED <<up, dev, srv, lost, listener, status, sock, buf, overlap, used>>

TaskStep(t) ==
  \/ (\E c \in Conn : setup_connect(t, c)) \/ connect_failed(t)
  \/ check_status(t) \/ receive_cmd(t)
  \/ dispatch_exit(t) \/ dispatch_heartbeat(t) \/ dispatch_other(t)
  \/ receive_len(t) \/ alloc_packet(t) \/ receive_sign(t) \/ receive_packet(t)

ClientNext == \E t \in Task : start_patch_service(t) \/ TaskStep(t)
=============================================================================
