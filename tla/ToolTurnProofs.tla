--------------------------- MODULE ToolTurnProofs ---------------------------
(***************************************************************************)
(* What holds of a turn whatever the ceiling and however many tools the    *)
(* model asks for in a round. The invariant says that what the model was   *)
(* told is a prefix of what it asked, and that the calls of the round that *)
(* have not run are exactly the rest.                                      *)
(***************************************************************************)
EXTENDS ToolTurn, SequenceTheorems, TLAPS

Ids == Nat \X Nat

Types ==
  /\ at \in {"streaming", "running", "done", "provider_raised", "tool_raised"}
  /\ round \in 1..MaxRounds
  /\ calls \in Seq(Kinds) /\ Len(calls) <= MaxCalls
  /\ asked \in Seq(Ids)
  /\ told \in Seq(Ids)
  /\ said \in 0..MaxSaid
  /\ taken \in Nat

\* While calls are running, those that have run are the first of those asked.
Pending ==
  at = "running" =>
    /\ calls # <<>>
    /\ Len(asked) = Len(told) + Len(calls)
    /\ \A i \in 1..Len(told) : told[i] = asked[i]

IInv == Types /\ ModelIsTold /\ Pending

LEMMA InitIInv == Init => IInv
  BY ToolTurnAssumption, EmptySeq DEF Init, IInv, Types, ModelIsTold, Pending

\* One call has run and its answer is put behind the others.
LEMMA OneAnswered ==
  ASSUME IInv, at = "running",
         told' = Append(told, Current),
         calls' = Tail(calls),
         AfterRun(Tail(calls)),
         UNCHANGED <<asked, said>>,
         taken' \in Nat
  PROVE  IInv'
<1> USE ToolTurnAssumption DEF IInv
<1>1. /\ Tail(calls) \in Seq(Kinds)
      /\ Len(Tail(calls)) = Len(calls) - 1
      /\ Len(told) + 1 \in 1..Len(asked)
  <2>1. Len(calls) > 0 /\ Len(calls) \in Nat /\ Len(told) \in Nat /\ Len(asked) \in Nat
    BY LenProperties, EmptySeq DEF Types, Pending
  <2>2. Len(asked) = Len(told) + Len(calls)
    BY DEF Pending
  <2>3. Tail(calls) \in Seq(Kinds) /\ Len(Tail(calls)) = Len(calls) - 1
    BY <2>1, HeadTailProperties DEF Types, Pending
  <2> QED
    BY <2>1, <2>2, <2>3
<1>2. Current \in Ids
  BY <1>1, ElementOfSeq DEF Current, Types
<1>3. /\ told' \in Seq(Ids)
      /\ Len(told') = Len(told) + 1
      /\ \A i \in 1..Len(told') : told'[i] = asked[i]
  <2>1. /\ \A i \in 1..Len(told) : told'[i] = told[i]
        /\ told'[Len(told) + 1] = Current
        /\ told' \in Seq(Ids) /\ Len(told') = Len(told) + 1
    BY <1>2, AppendProperties DEF Types
  <2> QED
    BY <2>1, LenProperties DEF Types, Pending, Current
<1>4. Types'
  BY <1>1, <1>3 DEF Types, AfterRun
<1>5. Pending'
  <2> SUFFICES ASSUME at' = "running"
               PROVE  /\ calls' # <<>>
                      /\ Len(asked) = Len(told') + Len(calls')
                      /\ \A i \in 1..Len(told') : told'[i] = asked[i]
    BY DEF Pending
  <2>1. calls' # <<>>
    BY DEF AfterRun
  <2>2. Len(told) \in Nat /\ Len(calls) \in Nat /\ Len(asked) = Len(told) + Len(calls)
    BY LenProperties DEF Types, Pending
  <2>3. Len(asked) = Len(told') + Len(calls')
    BY <1>1, <1>3, <2>2
  <2> QED
    BY <1>3, <2>1, <2>3
<1>6. ModelIsTold'
  <2> SUFFICES ASSUME at' = "streaming" PROVE told' = asked'
    BY DEF ModelIsTold
  <2>1. Len(Tail(calls)) = 0
    BY EmptySeq DEF AfterRun
  <2>2. Len(told') = Len(asked)
    BY <1>1, <1>3, <2>1, LenProperties DEF Types, Pending
  <2> QED
    BY <1>3, <2>2, SeqEqual DEF Types
<1> QED
  BY <1>4, <1>5, <1>6

LEMMA StepIInv == IInv /\ [Next]_vars => IInv'
<1> SUFFICES ASSUME IInv, [Next]_vars PROVE IInv'
  OBVIOUS
<1> USE ToolTurnAssumption
<1>1. CASE UNCHANGED vars
  BY <1>1 DEF IInv, Types, ModelIsTold, Pending, vars
<1>2. CASE Speak
  BY <1>2 DEF Speak, IInv, Types, ModelIsTold, Pending
<1>3. ASSUME NEW kind \in Kinds, AsksFor(kind) PROVE IInv'
  <2>1. calls' \in Seq(Kinds) /\ Len(calls') = Len(calls) + 1
    BY <1>3, AppendProperties DEF AsksFor, IInv, Types
  <2> QED
    BY <1>3, <2>1, LenProperties DEF AsksFor, IInv, Types, ModelIsTold, Pending
<1>4. CASE StreamEnds
  <2>1. CASE calls = <<>>
    BY <1>4, <2>1 DEF StreamEnds, IInv, Types, ModelIsTold, Pending
  <2>2. CASE calls # <<>>
    <3> DEFINE more == [n \in 1..Len(calls) |-> <<round, n>>]
    <3>1. more \in Seq(Ids) /\ Len(more) = Len(calls)
      <4>1. Len(calls) \in Nat /\ round \in Nat
        BY LenProperties DEF IInv, Types
      <4>2. \A n \in 1..Len(calls) : <<round, n>> \in Ids
        BY <4>1 DEF Ids
      <4> QED
        BY <4>1, <4>2, IsASeq
    <3>2. asked' = asked \o more /\ told = asked
      BY <1>4, <2>2 DEF StreamEnds, IInv, ModelIsTold
    <3>3. /\ asked' \in Seq(Ids)
          /\ Len(asked') = Len(asked) + Len(calls)
          /\ \A i \in 1..Len(asked) : asked'[i] = asked[i]
      <4>1. asked \in Seq(Ids) /\ Len(asked) \in Nat /\ Len(calls) \in Nat
        BY LenProperties DEF IInv, Types
      <4>2. /\ asked \o more \in Seq(Ids)
            /\ Len(asked \o more) = Len(asked) + Len(more)
            /\ \A i \in 1..(Len(asked) + Len(more)) :
                 (asked \o more)[i] = IF i <= Len(asked) THEN asked[i]
                                      ELSE more[i - Len(asked)]
        <5> HIDE DEF more
        <5> QED
          BY <3>1, <4>1, ConcatProperties
      <4> HIDE DEF more
      <4> QED
        BY <3>1, <3>2, <4>1, <4>2
    <3> HIDE DEF more
    <3> QED
      BY <1>4, <2>2, <3>2, <3>3 DEF StreamEnds, IInv, Types, ModelIsTold, Pending
  <2> QED
    BY <2>1, <2>2
<1>5. CASE ProviderRaises
  BY <1>5 DEF ProviderRaises, IInv, Types, ModelIsTold, Pending
<1>6. CASE RunCall
  BY <1>6, OneAnswered DEF RunCall, IInv, Types
<1>7. CASE TakeMessage
  <2>1. CASE TrayRefuses
    BY <1>7, <2>1 DEF TakeMessage, IInv, Types, ModelIsTold, Pending
  <2>2. CASE ~TrayRefuses
    BY <1>7, <2>2, OneAnswered DEF TakeMessage, IInv, Types
  <2> QED
    BY <2>1, <2>2
<1> QED
  BY <1>1, <1>2, <1>3, <1>4, <1>5, <1>6, <1>7 DEF Next

LEMMA Invariant == Spec => []IInv
  BY InitIInv, StepIInv, PTL DEF Spec

\* The types of the state, and never more rounds than the ceiling (MAX_TOOL_ROUNDS).
THEOREM TypeCorrect == Spec => []TypeOK
<1>1. IInv => TypeOK
  BY DEF IInv, Types, TypeOK
<1> QED
  BY Invariant, <1>1, PTL

\* Whenever the model is asked again it has been told the answer of every call it made,
\* each once and in its order, for any number of calls in a round.
THEOREM AlwaysTold == Spec => []ModelIsTold
<1>1. IInv => ModelIsTold
  BY DEF IInv
<1> QED
  BY Invariant, <1>1, PTL
=============================================================================
