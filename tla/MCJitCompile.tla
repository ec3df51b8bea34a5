--------------------------- MODULE MCJitCompile ---------------------------
EXTENDS JitCompile, SequencesExt

I(kind, len, off, imm) == [kind |-> kind, len |-> len, off |-> off, imm |-> imm]

\* All instructions over three code lengths and every jump offset that can
\* be well formed in four slots; imm matters only for a jump of offset 0.
SmallInst ==
  {I("straight", 2, 0, FALSE), I("straight", 10, 0, FALSE), I("lddw", 4, 0, FALSE),
   I("slot", 0, 0, FALSE), I("exit", 0, 0, FALSE), I("todo", 0, 0, FALSE)}
  \cup {I("jcond", 2, d, FALSE) : d \in -3 .. 3} \cup {I("jcond", 2, 0, TRUE)}
  \cup {I("ja", 0, d, FALSE) : d \in -3 .. 3}

SmallPrograms == {p \in BoundedSeq(SmallInst, 4) : WellFormed(p)}

\* Ranges in proportion to the code: a short conditional branch spans one
\* long instruction but not two, the buffer holds the longest program but one.
SmallCond == -14 .. 12
SmallLong == -46 .. 46

\* The real lengths: a conditional jump over six 64-bit shifts.
ShiftOver == {<<I("jcond", 4, 6, FALSE)>> \o [i \in 1 .. 6 |-> I("straight", 48, 0, FALSE)]
                \o <<I("exit", 0, 0, FALSE)>>}
RealCond == -256 .. 254
RealBranch == -2047 .. 2045
RealLong == -4096 .. 4096
===========================================================================
