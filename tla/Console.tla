------------------------------ MODULE Console ------------------------------
(***************************************************************************)
(* The shell of app/ihp_cli.c driving the eBPF runtime: pieces of input    *)
(* come in from the UART, complete lines become commands, and a command    *)
(* holds the shell thread until it is done.  A piece has at most one       *)
(* newline, at its end; nothing else reads the line buffer, so the         *)
(* characters of a piece are taken in one step.                            *)
(***************************************************************************)
EXTENDS EbpfRuntime, ShellOps

CONSTANTS Piece,      \* what may be typed: sequences of characters
          patch_list, \* the programs of the local patches, as a sequence
          fixed_list, \* and of the fixed ones
          test_funcs  \* and of the vm command

VARIABLES rx_buffer,  \* shell_cli
          exit_shell,
          typed       \* history: what was typed since the last prompt, a prefix

cli == <<rx_buffer, exit_shell, typed>>

(* The line as it was typed: carriage returns do not count, and one        *)
(* character more than fits tells that it is too long.                     *)
Line(s) ==
  LET all == typed \o SelectSeq(s, LAMBDA c : c # CR)
  IN  SubSeq(all, 1, IF Len(all) <= SHELL_BUFFER_SIZE THEN Len(all) ELSE SHELL_BUFFER_SIZE + 1)

ConsoleTypeOK ==
  /\ TypeOK
  /\ Len(rx_buffer) <= SHELL_BUFFER_SIZE /\ exit_shell \in BOOLEAN

ConsoleInit == Init /\ rx_buffer = <<>> /\ exit_shell = FALSE /\ typed = <<>>

(* The row of a table; an index outside reads memory that is not the table.*)
Row(table, i) == IF i + 1 \in DOMAIN table THEN {table[i + 1]} ELSE Prog

(* read_local_patch refuses ids above the size of its table, after         *)
(* set_patch_mode has cleared the breakpoints; run_ebpf_eva refuses all    *)
(* that are outside.                                                       *)
handle_patch_func(id) ==
  IF id > Len(patch_list) THEN set_patch_mode
  ELSE \E p \in Row(patch_list, id) : read_local_patch(p)

run_ebpf_eva(id) ==
  IF id < 0 \/ id >= Len(test_funcs) THEN UNCHANGED vars
  ELSE ebpf_eva(test_funcs[id + 1])

(* The numbered tests.  The first two clear the breakpoints and set ones of *)
(* their own, which have no filter; one resets; two load a fixed patch; the *)
(* others call patched functions or start the service, PatchContext's.      *)
run_test_by_id(id) ==
  CASE id \in {0, 1} -> set_patch_mode
    [] id = 2 -> reset_patch
    [] id \in {6, 7} -> load_local_fixed_patch(fixed_list[id - 5])
    [] OTHER -> UNCHANGED vars

Letter == [patch |-> 112, vm |-> 118, run |-> 114, q |-> 113]

shell_dispatch_cmd(ws) ==
  LET cmd == ws[1]  id == str2int(ws[2])
  IN  CASE cmd = <<Letter.patch>> /\ Len(ws) >= 2 -> handle_patch_func(id)
        [] cmd = <<Letter.vm>> /\ Len(ws) >= 2 -> run_ebpf_eva(id)
        [] cmd = <<Letter.run>> /\ Len(ws) >= 2 -> run_test_by_id(id)
        [] OTHER -> UNCHANGED vars

(* run_shell_cli reads the piece s; shell_process acts on a complete line  *)
(* and clears the buffer.                                                  *)
Received(s) == FoldLeft(shell_receive_char, rx_buffer, s)

Type(s) ==
  LET rx == Received(s)
      ws == split(rx)
  IN  /\ ~exit_shell /\ ShellThread /\ task.pc = "idle"
      /\ \/ /\ shell_last_char(rx) # NL
            /\ rx_buffer' = rx /\ typed' = Line(s)
            /\ UNCHANGED <<vars, exit_shell>>
         \/ /\ shell_last_char(rx) = NL
            /\ rx_buffer' = <<>> /\ typed' = <<>>
            /\ exit_shell' = (ws # <<>> /\ ws[1] = <<Letter.q>>)
            /\ IF ws = <<>> THEN UNCHANGED vars ELSE shell_dispatch_cmd(ws)

ConsoleNext ==
  \/ \E s \in Piece : Type(s)
  \/ (Step \/ Library \/ Filter) /\ UNCHANGED cli

ConsoleSpec == ConsoleInit /\ [][ConsoleNext]_<<vars, cli>>

(* An interpreted filter, which runs in a thread, executes its next        *)
(* instruction if it can again and again.  Whether it comes to its exit is *)
(* up to the program.                                                      *)
FairSpec ==
  /\ ConsoleSpec
  /\ \A v \in {Fixed, Stack} : SF_<<vars, cli>>(Instruction(v) /\ UNCHANGED cli)
-----------------------------------------------------------------------------
(* A line that fits the buffer is executed when its newline is typed, in   *)
(* however many pieces it came, with exactly its first max_args words as   *)
(* arguments; carriage returns do not count.  A longer line is never       *)
(* executed, not even in part, and neither is what follows it.             *)
LineRunsItsWords ==
  [][\A s \in Piece : Type(s) =>
       LET whole == shell_last_char(Line(s)) = NL /\ Len(Line(s)) <= SHELL_BUFFER_SIZE
       IN  /\ whole => rx_buffer' = <<>> /\ IsWords(split(Received(s)), Line(s))
           /\ ~whole => UNCHANGED <<vars, exit_shell>>]_<<vars, cli>>
=============================================================================
