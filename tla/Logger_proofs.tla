---------------------------- MODULE Logger_proofs ----------------------------
(***************************************************************************)
(* No log line is lost, doubled or overtaken, and a process that leaves    *)
(* through exit has written all that was queued before: for any number of  *)
(* threads, levels and messages.                                           *)
(***************************************************************************)
EXTENDS Logger, SequenceTheorems, TLAPS

\* What WriterTake does to the three parts of InOrder.
LEMMA TakeKeepsOrder ==
  ASSUME NEW S, NEW w \in Seq(S), NEW q \in Seq(S), q # <<>>
  PROVE  w \o <<>> \o q = w \o <<Head(q)>> \o Tail(q)
<1>1. Head(q) \in S /\ Tail(q) \in Seq(S) BY HeadTailProperties
<1>2. <<Head(q)>> \in Seq(S) BY <1>1
<1>3. q = <<Head(q)>> \o Tail(q)
  <2>1. <<Head(q)>> \o Tail(q) \in Seq(S) BY <1>1, <1>2, ConcatProperties
  <2>2. Len(<<Head(q)>> \o Tail(q)) = 1 + Len(Tail(q)) BY <1>1, <1>2, ConcatProperties
  <2>3. Len(q) \in Nat /\ Len(Tail(q)) = Len(q) - 1 BY HeadTailProperties, LenProperties
  <2>4. ASSUME NEW i \in 1..Len(q) PROVE q[i] = (<<Head(q)>> \o Tail(q))[i]
    <3>1. CASE i = 1 BY <3>1, <1>1, <1>2, <2>3, ConcatProperties
    <3>2. CASE i # 1
      <4>1. (<<Head(q)>> \o Tail(q))[i] = Tail(q)[i - 1]
        BY <3>2, <1>1, <1>2, <2>3, ConcatProperties
      <4>2. Tail(q)[i - 1] = q[i] BY <3>2, <2>3, HeadTailProperties
      <4> QED BY <4>1, <4>2
    <3> QED BY <3>1, <3>2
  <2> QED BY <2>1, <2>2, <2>3, <2>4, SeqEqual
<1>4. w \o <<>> = w BY ConcatEmptySeq
<1>5. (w \o <<Head(q)>>) \o Tail(q) = w \o (<<Head(q)>> \o Tail(q)) BY <1>1, <1>2, ConcatAssociative
<1> QED BY <1>3, <1>4, <1>5

\* What WriterWrite does to them.
LEMMA WriteKeepsOrder ==
  ASSUME NEW S, NEW w \in Seq(S), NEW h \in Seq(S), NEW q \in Seq(S)
  PROVE  w \o h \o q = (w \o h) \o <<>> \o q
<1>1. w \o h \in Seq(S) BY ConcatProperties
<1> QED BY <1>1, ConcatEmptySeq

LEMMA InitInv == Init => Inv
<1> SUFFICES ASSUME Init PROVE Inv
  OBVIOUS
<1>1. ErrorLevel \in Levels BY LoggerConstants
<1>2. <<>> \in Seq(Levels) /\ Len(<<>>) = 0 BY EmptySeq
<1>3. <<>> \o <<>> \o <<>> = <<>> BY <1>2, ConcatEmptySeq
<1>4. TypeOK BY <1>1, <1>2 DEF Init, TypeOK
<1>5. InOrder BY <1>3 DEF Init, InOrder
<1>6. HandInv /\ StopInv BY DEF Init, HandInv, StopInv
<1> QED BY <1>4, <1>5, <1>6 DEF Inv

LEMMA StepInv == Inv /\ [Next]_vars => Inv'
<1> SUFFICES ASSUME Inv, [Next]_vars PROVE Inv'
  OBVIOUS
<1> USE LoggerConstants
<1>1. ASSUME NEW t \in Threads, NEW l \in Levels, Log(t, l) PROVE Inv'
  BY <1>1 DEF Log, Inv, TypeOK, InOrder, HandInv, StopInv, settings, writer, exiting
<1>2. ASSUME NEW t \in Threads, Push(t) PROVE Inv'
  <2>1. msg[t] \in Levels BY DEF Inv, TypeOK
  <2>2. InOrder'
    <3>1. /\ written \in Seq(Levels) /\ hand \in Seq(Levels) /\ queue \in Seq(Levels)
          /\ pushed \in Seq(Levels) /\ <<msg[t]>> \in Seq(Levels)
      BY <2>1 DEF Inv, TypeOK
    <3>2. pushed' = pushed \o <<msg[t]>> BY <1>2, <2>1, <3>1 DEF Push
    <3>3. queue' = queue \o <<msg[t]>> BY <1>2, <2>1, <3>1 DEF Push
    <3>4. written \o hand \in Seq(Levels) BY <3>1, ConcatProperties
    <3>5. ((written \o hand) \o queue) \o <<msg[t]>> = (written \o hand) \o (queue \o <<msg[t]>>)
      BY <3>1, <3>4, ConcatAssociative
    <3> QED BY <1>2, <3>2, <3>3, <3>5 DEF Push, Inv, InOrder, writer
  <2>3. Len(pushed') = Len(pushed) + 1 /\ Len(pushed) \in Nat
    BY <1>2, <2>1, LenProperties DEF Push, Inv, TypeOK
  <2>4. TypeOK' BY <1>2, <2>1 DEF Push, Inv, TypeOK, settings, writer, exiting
  <2>5. HandInv' BY <1>2 DEF Push, Inv, HandInv, writer
  <2>6. StopInv' BY <1>2, <2>3 DEF Push, Inv, TypeOK, StopInv, writer, exiting
  <2> QED BY <2>2, <2>4, <2>5, <2>6 DEF Inv
<1>3. ASSUME NEW t \in Threads, Notify(t) PROVE Inv'
  BY <1>3 DEF Notify, Woken, Inv, TypeOK, InOrder, HandInv, StopInv, settings, exiting
<1>4. ASSUME NEW t \in Threads, Configure(t) PROVE Inv'
  BY <1>4 DEF Configure, Inv, TypeOK, InOrder, HandInv, StopInv, writer, exiting
<1>5. ASSUME NEW t \in Threads, SetStop(t) PROVE Inv'
  <2>1. Len(pushed) \in Nat BY LenProperties DEF Inv, TypeOK
  <2> QED
    BY <1>5, <2>1 DEF SetStop, Inv, TypeOK, InOrder, HandInv, StopInv, settings, writer
<1>6. ASSUME NEW t \in Threads, NotifyAll(t) PROVE Inv'
  BY <1>6 DEF NotifyAll, Woken, Inv, TypeOK, InOrder, HandInv, StopInv, settings, exiting
<1>7. ASSUME NEW t \in Threads, Join(t) PROVE Inv'
  BY <1>7 DEF Join, Inv, TypeOK, InOrder, HandInv, StopInv, settings, writer
<1>8. ASSUME NEW t \in Threads, Abort(t) PROVE Inv'
  BY <1>8 DEF Abort, Inv, TypeOK, InOrder, HandInv, StopInv, settings, writer
<1>9. ASSUME queue = <<>>, hand = <<>>, stop PROVE Len(written) >= atStop
  <2>1. pushed = written BY <1>9, ConcatEmptySeq DEF Inv, TypeOK, InOrder
  <2> QED BY <1>9, <2>1, LenProperties DEF Inv, TypeOK, StopInv
<1>10. CASE WriterTest
  BY <1>10, <1>9 DEF WriterTest, Inv, TypeOK, InOrder, HandInv, StopInv, settings, exiting
<1>11. CASE WriterLock
  BY <1>11 DEF WriterLock, Inv, TypeOK, InOrder, HandInv, StopInv, settings, exiting
<1>12. CASE WriterTake
  <2>1. hand = <<>> BY <1>12 DEF WriterTake, Inv, HandInv
  <2>2. InOrder'
    <3>1. written \o <<>> \o queue = written \o <<Head(queue)>> \o Tail(queue)
      BY <1>12, TakeKeepsOrder DEF WriterTake, Inv, TypeOK
    <3> QED BY <1>12, <2>1, <3>1 DEF WriterTake, Inv, InOrder
  <2>3. Head(queue) \in Levels /\ Tail(queue) \in Seq(Levels)
    BY <1>12, HeadTailProperties DEF WriterTake, Inv, TypeOK
  <2>4. TypeOK'
    <3>1. <<Head(queue)>> \in Seq(Levels) BY <2>3
    <3>2. hand' \in Seq(Levels) /\ queue' \in Seq(Levels) BY <1>12, <2>3, <3>1 DEF WriterTake
    <3> QED BY <1>12, <3>2 DEF WriterTake, Inv, TypeOK, settings, exiting
  <2>5. HandInv' BY <1>12 DEF WriterTake, HandInv
  <2>6. StopInv' BY <1>12 DEF WriterTake, Inv, StopInv, exiting
  <2> QED BY <2>2, <2>4, <2>5, <2>6 DEF Inv
<1>13. CASE WriterBreak
  BY <1>13, <1>9 DEF WriterBreak, Inv, TypeOK, InOrder, HandInv, StopInv, settings, exiting
<1>14. CASE WriterFalse
  BY <1>14 DEF WriterFalse, Inv, TypeOK, InOrder, HandInv, StopInv, settings, exiting
<1>15. CASE WriterSleep
  BY <1>15 DEF WriterSleep, Inv, TypeOK, InOrder, HandInv, StopInv, settings, exiting
<1>16. CASE WriterWake
  BY <1>16 DEF WriterWake, Inv, TypeOK, InOrder, HandInv, StopInv, settings, exiting
<1>17. CASE WriterWrite
  <2>1. written \o hand \in Seq(Levels) BY ConcatProperties DEF Inv, TypeOK
  <2>2. InOrder'
    <3>1. written \o hand \o queue = (written \o hand) \o <<>> \o queue
      BY WriteKeepsOrder DEF Inv, TypeOK
    <3> QED BY <1>17, <3>1 DEF WriterWrite, Inv, InOrder
  <2>3. TypeOK' BY <1>17, <2>1 DEF WriterWrite, Inv, TypeOK, settings, exiting
  <2>4. HandInv' BY <1>17 DEF WriterWrite, HandInv
  <2>5. StopInv' BY <1>17 DEF WriterWrite, Inv, StopInv, exiting
  <2> QED BY <2>2, <2>3, <2>4, <2>5 DEF Inv
<1>18. CASE UNCHANGED vars
  BY <1>18 DEF vars, Inv, TypeOK, InOrder, HandInv, StopInv
<1> QED
  BY <1>1, <1>2, <1>3, <1>4, <1>5, <1>6, <1>7, <1>8, <1>10, <1>11, <1>12, <1>13, <1>14, <1>15,
     <1>16, <1>17, <1>18 DEF Next, ThreadStep, WriterStep

\* The invariant that relates the queue, the writer's hand and the stop flag
\* holds in every reachable state (writerThreadFunc, stopWriterThread).
THEOREM LoggerInvariant == Spec => []Inv
BY InitInv, StepInv, PTL DEF Spec

\* Lines are written in the order they were queued, each once (writerThreadFunc).
THEOREM OrderHolds == Spec => []InOrder
<1>1. Inv => InOrder BY DEF Inv
<1> QED BY <1>1, LoggerInvariant, PTL

\* A process that left through exit has written all that was queued before the
\* destructor set writer_stop_ (raise_critical_impl, stopWriterThread).
THEOREM DrainedHolds == Spec => []Drained
<1>1. Inv => Drained BY DEF Inv, StopInv, Drained
<1> QED BY <1>1, LoggerInvariant, PTL

==============================================================================
