------------------------------ MODULE ShellOps ------------------------------
(***************************************************************************)
(* The line editor of app/ihp_cli.c as operators on its buffer.  A         *)
(* character is its code; the word of a command is its first letter.       *)
(***************************************************************************)
EXTENDS Integers, SequencesExt

CONSTANTS SHELL_BUFFER_SIZE, max_args

NL == 10
CR == 13
Space == 32
Zero == 48

(* shell_receive_char: a full buffer takes nothing, not even the newline   *)
(* that would empty it.  (DEV_QEMU builds keep carriage returns.)          *)
shell_receive_char(rx, c) ==
  IF c = CR \/ Len(rx) >= SHELL_BUFFER_SIZE THEN rx ELSE Append(rx, c)

shell_last_char(rx) == IF rx = <<>> THEN 0 ELSE Last(rx)

(* The loop of shell_process: a separator, or the last character, ends the *)
(* word that next_arg begins; the loop stops at max_args words.            *)
split_keep_last(rx) ==
  LET Next(st, i) ==
        IF Len(st.argv) = max_args THEN st
        ELSE IF rx[i] \in {NL, Space}
        THEN [argv |-> IF st.arg = <<>> THEN st.argv ELSE Append(st.argv, st.arg), arg |-> st.arg]
        ELSE [st EXCEPT !.arg = Append(@, rx[i])]
  IN  FoldLeft(Next, [argv |-> <<>>, arg |-> <<>>], [i \in 1 .. Len(rx) |-> i]).argv

split(rx) ==
  LET Next(st, i) ==
        IF Len(st.argv) = max_args THEN st
        ELSE IF rx[i] \in {NL, Space} \/ i = Len(rx)
        THEN [argv |-> IF st.arg = <<>> THEN st.argv ELSE Append(st.argv, st.arg), arg |-> <<>>]
        ELSE [st EXCEPT !.arg = Append(@, rx[i])]
  IN  FoldLeft(Next, [argv |-> <<>>, arg |-> <<>>], [i \in 1 .. Len(rx) |-> i]).argv

str2int(word) == FoldLeft(LAMBDA val, c : val * 10 + (c - Zero), 0, word)

(* What a line is: its words are its longest pieces without separators, in *)
(* the order in which they stand.                                          *)
WordAt(line, i, j) ==
  /\ \A k \in i .. j : line[k] \notin {NL, Space}
  /\ i = 1 \/ line[i - 1] \in {NL, Space}
  /\ j = Len(line) \/ line[j + 1] \in {NL, Space}

IsWords(ws, line) ==
  LET found == {p \in (1 .. Len(line)) \X (1 .. Len(line)) : p[1] <= p[2] /\ WordAt(line, p[1], p[2])}
      order == SetToSortSeq(found, LAMBDA p, q : p[1] < q[1])
  IN  ws = [n \in 1 .. (IF Len(order) < max_args THEN Len(order) ELSE max_args) |->
              SubSeq(line, order[n][1], order[n][2])]
=============================================================================
