------------------------- MODULE ProviderCallSafety -------------------------
(***************************************************************************)
(* The safety of ProviderCall, for every value of its constants: what a    *)
(* job gives and shows is what the model generated, however the response   *)
(* was cut into chunks and wherever it ended, and a job that ended is      *)
(* accounted for once.  While the stream lasts the assembly is what        *)
(* folding the lines that are complete gives (ProviderStreams); every      *)
(* property of the response follows from that when the stream ends.  Then  *)
(* what the caller sends back: whatever a dialect makes of the messages,   *)
(* the parts of its request are those of each message in turn, so a result *)
(* reaches the provider under the function that was called.                *)
(***************************************************************************)
EXTENDS ProviderStreams

Sequence(s) == s \in Seq({s[i] : i \in DOMAIN s})

\* The states of a job before its stream.
Quiet == {"idle", "bearer", "send", "backoff"}

Typed ==
  /\ TypeOK
  /\ waited <= (attempt - 1) * MaxBackoff
  /\ answer \in Generated
  /\ Sequence(messages) /\ Sequence(meant) /\ Sequence(response.calls)

Bookkept ==
  /\ outcome # "none" <=> pc = "done"
  /\ pc = "idle" => ~held /\ records = <<>>
  /\ AccountedOnce

Assembling ==
  /\ pc \in Quiet => received = 0 /\ fold = NoFold /\ shown = <<>>
  /\ pc = "stream" =>
       /\ Assembled(dialect, answer, repeats, Complete(received), fold)
       /\ shown = IF MustBuffer THEN <<>> ELSE fold.out

IInv ==
  /\ Typed /\ Bookkept /\ Assembling
  /\ StreamedIsWhole /\ CutIsPrefix /\ ShownIsTheAnswer /\ JudgedBeforeShown

----------------------------------------------------------------------------
(* The lemmas that the steps use *)

LEMMA SequenceOf ==
  ASSUME NEW S, NEW s \in Seq(S)
  PROVE  Sequence(s) /\ Len(s) \in Nat /\ DOMAIN s = 1..Len(s)
<1>1. Len(s) \in Nat /\ DOMAIN s = 1..Len(s) /\ s \in [1..Len(s) -> S]
  BY LenProperties
<1> DEFINE R == {s[i] : i \in DOMAIN s}
<1>2. s \in [1..Len(s) -> R]
  BY <1>1
<1>3. s \in Seq(R)
  <2> HIDE DEF R
  <2> QED BY <1>1, <1>2, FunctionIsSeq
<1> QED BY <1>1, <1>3 DEF Sequence

LEMMA SequenceFacts ==
  ASSUME NEW s, Sequence(s)
  PROVE  Len(s) \in Nat /\ DOMAIN s = 1..Len(s)
BY LenProperties DEF Sequence

LEMMA FunctionIsSequence ==
  ASSUME NEW n \in Nat, NEW s, s = [i \in 1..n |-> s[i]]
  PROVE  Sequence(s) /\ Len(s) = n /\ DOMAIN s = 1..n
<1> DEFINE R == {s[i] : i \in 1..n}
<1>1. s \in [1..n -> R] /\ DOMAIN s = 1..n
  <2>1. \A i \in 1..n : s[i] \in R
    OBVIOUS
  <2> HIDE DEF R
  <2> QED BY <2>1
<1>2. s \in Seq(R) /\ Len(s) = n
  <2> HIDE DEF R
  <2> QED BY <1>1, FunctionIsSeq
<1> QED BY <1>1, <1>2 DEF Sequence

LEMMA SequenceConcat ==
  ASSUME NEW s, NEW t, Sequence(s), Sequence(t)
  PROVE  /\ Sequence(s \o t) /\ Len(s \o t) = Len(s) + Len(t)
         /\ \A i \in 1..Len(s) : (s \o t)[i] = s[i]
         /\ \A i \in 1..Len(t) : (s \o t)[Len(s) + i] = t[i]
<1> DEFINE R == {s[i] : i \in DOMAIN s}
           T == {t[i] : i \in DOMAIN t}
           U == R \cup T
<1>1. s \in Seq(R) /\ t \in Seq(T)
  BY DEF Sequence
<1> HIDE DEF R, T
<1>2. s \in Seq(U) /\ t \in Seq(U)
  <2>1. s \in [1..Len(s) -> R] /\ t \in [1..Len(t) -> T] /\ Len(s) \in Nat /\ Len(t) \in Nat
    BY <1>1, LenProperties
  <2>2. s \in [1..Len(s) -> U] /\ t \in [1..Len(t) -> U]
    BY <2>1
  <2> HIDE DEF U
  <2> QED BY <2>1, <2>2, FunctionIsSeq
<1> HIDE DEF U
<1>3. /\ s \o t \in Seq(U) /\ Len(s \o t) = Len(s) + Len(t)
      /\ \A i \in 1..(Len(s) + Len(t)) :
           (s \o t)[i] = IF i <= Len(s) THEN s[i] ELSE t[i - Len(s)]
  BY <1>2, ConcatProperties
<1>4. Len(s) \in Nat /\ Len(t) \in Nat
  BY <1>2, LenProperties
<1>5. ASSUME NEW i \in 1..Len(s) PROVE (s \o t)[i] = s[i]
  <2>1. i \in 1..(Len(s) + Len(t)) /\ i <= Len(s)
    BY <1>4
  <2> QED BY <1>3, <2>1
<1>6. ASSUME NEW i \in 1..Len(t) PROVE (s \o t)[Len(s) + i] = t[i]
  <2>1. Len(s) + i \in 1..(Len(s) + Len(t)) /\ ~(Len(s) + i <= Len(s)) /\ (Len(s) + i) - Len(s) = i
    BY <1>4
  <2> QED BY <1>3, <2>1
<1>7. Sequence(s \o t)
  BY <1>3, SequenceOf
<1> QED BY <1>3, <1>5, <1>6, <1>7

\* Backoff is bounded, whatever the provider asks for.
DoubledTo(n, h) == h = [i \in 1..n |-> IF i = 1 THEN BaseBackoff ELSE 2 * h[i - 1]]

LEMMA DoubledType ==
  ASSUME NEW n \in Nat \ {0}
  PROVE  Doubled(n) \in Nat
<1>1. BaseBackoff \in Nat
  BY ProviderCallAssumption
<1> DEFINE T == {m \in Nat : \E h : DoubledTo(m, h) /\ \A i \in 1..m : h[i] \in Nat}
<1>2. 0 \in T
  <2>1. 1..0 = {}
    OBVIOUS
  <2>2. DoubledTo(0, [i \in 1..0 |-> 0])
    BY <2>1 DEF DoubledTo
  <2> QED BY <2>1, <2>2
<1>3. ASSUME NEW m \in Nat, m \in T
      PROVE  m + 1 \in T
  <2>1. PICK g : DoubledTo(m, g) /\ \A i \in 1..m : g[i] \in Nat
    BY <1>3
  <2> DEFINE last == IF m = 0 THEN BaseBackoff ELSE 2 * g[m]
             h == [i \in 1..(m + 1) |-> IF i = m + 1 THEN last ELSE g[i]]
  <2>2. last \in Nat
    BY <1>1, <2>1
  <2>3. ASSUME NEW i \in 1..(m + 1)
        PROVE  h[i] \in Nat /\ h[i] = IF i = 1 THEN BaseBackoff ELSE 2 * h[i - 1]
    <3>1. CASE i = m + 1
      <4>1. h[i] = last /\ (i # 1 => i - 1 \in 1..m /\ i - 1 = m)
        BY <3>1
      <4>2. i # 1 => h[i - 1] = g[m]
        BY <3>1, <4>1
      <4> HIDE DEF h
      <4> QED BY <2>2, <3>1, <4>1, <4>2
    <3>2. CASE i # m + 1
      <4>1. i \in 1..m /\ h[i] = g[i] /\ (i # 1 => h[i - 1] = g[i - 1])
        BY <3>2
      <4> HIDE DEF h
      <4>2. g[i] = IF i = 1 THEN BaseBackoff ELSE 2 * g[i - 1]
        BY <2>1, <4>1 DEF DoubledTo
      <4> QED BY <2>1, <4>1, <4>2
    <3> QED BY <3>1, <3>2
  <2>4. h = [i \in 1..(m + 1) |-> h[i]]
    OBVIOUS
  <2> HIDE DEF h
  <2>5. DoubledTo(m + 1, h)
    BY <2>3, <2>4 DEF DoubledTo
  <2> QED BY <2>3, <2>5
<1>4. Nat \subseteq T
  <2> HIDE DEF T
  <2> QED BY <1>2, <1>3, Induction
<1>5. PICK g : DoubledTo(n, g) /\ \A i \in 1..n : g[i] \in Nat
  BY <1>4
<1> DEFINE h == CHOOSE h : DoubledTo(n, h)
<1>6. DoubledTo(n, h)
  BY <1>5
<1>7. Doubled(n) = h[n]
  BY DEF Doubled, DoubledTo
<1> HIDE DEF h
<1> DEFINE P == {i \in Nat : i \in 1..n => h[i] \in Nat}
<1>8. 0 \in P
  OBVIOUS
<1>9. ASSUME NEW i \in Nat, i \in P
      PROVE  i + 1 \in P
  <2> SUFFICES ASSUME i + 1 \in 1..n PROVE h[i + 1] \in Nat
    OBVIOUS
  <2>1. h[i + 1] = IF i + 1 = 1 THEN BaseBackoff ELSE 2 * h[(i + 1) - 1]
    BY <1>6 DEF DoubledTo
  <2>2. i # 0 => h[i] \in Nat /\ (i + 1) - 1 = i
    BY <1>9
  <2> QED BY <1>1, <2>1, <2>2
<1>10. Nat \subseteq P
  <2> HIDE DEF P
  <2> QED BY <1>8, <1>9, Induction
<1> QED BY <1>7, <1>10

LEMMA BackoffBound ==
  ASSUME NEW n \in Nat \ {0}, NEW asked \in Asked
  PROVE  Backoff(n, asked) \in 0..MaxBackoff
<1>1. asked \in Nat /\ MaxBackoff \in Nat /\ Doubled(n) \in Nat
  BY ProviderCallAssumption, DoubledType
<1> QED BY <1>1 DEF Backoff, Least

\* What the model generates is an answer whose calls have ids.
LEMMA WordsOfStrings ==
  ASSUME NEW s \in Seq(STRING)
  PROVE  s \in AText
<1>1. s \in [1..Len(s) -> STRING] /\ Len(s) \in Nat
  BY LenProperties
<1>2. s \in [1..Len(s) -> Word]
  BY <1>1 DEF Word
<1> QED BY <1>1, <1>2, FunctionIsSeq DEF AText

LEMMA GeneratedFacts ==
  ASSUME NEW a \in Generated
  PROVE  /\ a \in AnAnswer /\ Len(a.calls) \in Nat /\ DOMAIN a.calls = 1..Len(a.calls)
         /\ \A i \in 1..Len(a.calls) : a.calls[i].id # NoId
<1> DEFINE C == {c \in ACall : c.id # NoId}
<1>1. a.text \in AText /\ a.calls \in Seq(C) /\ a = [text |-> a.text, calls |-> a.calls]
  BY DEF Generated
<1> HIDE DEF C
<1>2. /\ Len(a.calls) \in Nat /\ DOMAIN a.calls = 1..Len(a.calls)
      /\ a.calls \in [1..Len(a.calls) -> C]
  BY <1>1, LenProperties
<1>3. \A c \in C : c \in ACall /\ c.id # NoId
  BY DEF C
<1>4. a.calls \in [1..Len(a.calls) -> ACall]
  BY <1>2, <1>3
<1>5. a.calls \in Seq(ACall)
  BY <1>2, <1>4, FunctionIsSeq
<1>6. a \in AnAnswer
  BY <1>1, <1>5 DEF AnAnswer
<1> QED BY <1>2, <1>3, <1>6

LEMMA AnsweredType ==
  ASSUME NEW a \in Answer, NEW n \in Nat
  PROVE  [text |-> a.text,
          calls |-> [i \in DOMAIN a.functions |->
                      Call(<<n, i>>, a.functions[i][1], a.functions[i][2])]] \in Generated
<1> DEFINE fs == a.functions
           calls == [i \in DOMAIN fs |-> Call(<<n, i>>, fs[i][1], fs[i][2])]
           C == {c \in ACall : c.id # NoId}
<1>1. a.text \in Seq(STRING) /\ fs \in Seq(STRING \X Seq(STRING))
  BY ProviderCallAssumption
<1>2. Len(fs) \in Nat /\ DOMAIN fs = 1..Len(fs)
  BY <1>1, LenProperties
<1>3. ASSUME NEW i \in 1..Len(fs) PROVE calls[i] \in C
  <2>1. fs[i] \in STRING \X Seq(STRING)
    BY <1>1, ElementOfSeq
  <2>2. fs[i][1] \in Word /\ fs[i][2] \in Seq(Word)
    BY <2>1, WordsOfStrings DEF Word, AText
  <2>3. <<n, i>> \in Nat \X Nat /\ <<n, i>> # <<0, 0>>
    BY <1>2
  <2>4. calls[i] = [id |-> <<n, i>>, name |-> fs[i][1], args |-> fs[i][2]]
    BY <1>2 DEF Call
  <2> HIDE DEF fs, calls
  <2> QED BY <2>2, <2>3, <2>4 DEF ACall, NoId
<1>4. calls \in [1..Len(fs) -> C]
  <2>1. calls = [i \in 1..Len(fs) |-> calls[i]]
    BY <1>2
  <2> HIDE DEF C, calls
  <2> QED BY <1>3, <2>1
<1>5. calls \in Seq(C)
  <2> HIDE DEF C, calls
  <2> QED BY <1>2, <1>4, FunctionIsSeq
<1>6. a.text \in AText
  BY <1>1, WordsOfStrings
<1> HIDE DEF calls
<1>7. [text |-> a.text, calls |-> calls] \in Generated
  BY <1>5, <1>6 DEF Generated
<1> QED BY <1>7 DEF calls, fs

LEMMA NoAnswerType == NoAnswer \in Generated
<1>1. <<>> \in AText /\ <<>> \in Seq({c \in ACall : c.id # NoId})
  BY EmptySeq DEF AText
<1> QED BY <1>1 DEF NoAnswer, Generated

LEMMA LinesFacts ==
  ASSUME dialect \in Backend, answer \in Generated
  PROVE  /\ dialect \in Dialect /\ answer \in AnAnswer
         /\ Lines \in Seq(ALine) /\ Len(Lines) = WireLen(dialect, answer)
         /\ Len(Lines) \in Nat \ {0} /\ Size = 2 * Len(Lines)
<1>1. dialect \in Dialect /\ answer \in AnAnswer
  BY ProviderCallAssumption, GeneratedFacts
<1> QED BY <1>1, WireFacts DEF Lines, Size

----------------------------------------------------------------------------
(* The steps *)

LEMMA Starts == Init => IInv
<1> SUFFICES ASSUME Init PROVE IInv
  OBVIOUS
<1> USE DEF Init
<1>1. answer \in Generated
  BY NoAnswerType
<1>2. Size \in Nat /\ 0 \in 0..Size
  BY <1>1, LinesFacts
<1>3. messages \in Seq({messages[1], messages[2]}) /\ DOMAIN messages = 1..2
  OBVIOUS
<1>4. {i \in DOMAIN messages : messages[i].role = "tool"} = {}
  <2>1. messages[1].role = "system" /\ messages[2].role = "user"
    BY DEF Message
  <2> QED BY <1>3, <2>1
<1>5. Len(meant) = Cardinality({i \in DOMAIN messages : messages[i].role = "tool"})
  BY <1>4, FS_EmptySet
<1>6. Sequence(messages) /\ Sequence(meant) /\ Sequence(response.calls)
  <2>1. <<>> \in Seq({})
    OBVIOUS
  <2>2. meant = <<>> /\ response.calls = <<>>
    BY DEF NoResponse, Response
  <2> QED BY <1>3, <2>1, <2>2, SequenceOf
<1>7. MaxTurns \in Nat /\ MaxAttempts \in Nat \ {0} /\ MaxBackoff \in Nat
  BY ProviderCallAssumption
<1>8. 0 \in 0..((MaxAttempts - 1) * MaxBackoff) /\ 0 <= (1 - 1) * MaxBackoff
  <2>1. (MaxAttempts - 1) * MaxBackoff \in Nat
    BY <1>7
  <2>2. (1 - 1) * MaxBackoff = 0
    BY <1>7
  <2> QED BY <2>1, <2>2
<1>9. 0 \in 0..MaxTurns /\ 1 \in 1..MaxAttempts
  BY <1>7
<1>10. records \in Seq(BOOLEAN)
  BY EmptySeq
<1>11. TypeOK
  BY <1>2, <1>5, <1>8, <1>9, <1>10 DEF TypeOK
<1>12. Typed
  BY <1>1, <1>6, <1>8, <1>11 DEF Typed
<1>13. Bookkept
  BY DEF Bookkept, AccountedOnce, Waiting
<1>14. Assembling
  BY DEF Assembling, Quiet
<1>15. StreamedIsWhole /\ CutIsPrefix /\ ShownIsTheAnswer /\ JudgedBeforeShown
  BY DEF StreamedIsWhole, CutIsPrefix, ShownIsTheAnswer, JudgedBeforeShown
<1> QED BY <1>12, <1>13, <1>14, <1>15 DEF IInv

\* What a step leaves alone when it neither answers nor continues.
Conversation == <<dialect, messages, meant, ask>>
Heard == <<answer, ends, repeats, received>>

\* A job that ends without an answer.
LEMMA JobEnds ==
  ASSUME IInv, pc # "done",
         UNCHANGED <<Conversation, Heard, attempt, waited, shown>>,
         turn' \in 0..MaxTurns, torn' \in BOOLEAN,
         NEW how \in {"provider_error", "refused", "aborted"}, NEW recs,
         Done(how, NoResponse, recs),
         recs = IF how = "provider_error" THEN <<FALSE>> ELSE <<>>
  PROVE  IInv'
<1> USE DEF IInv, Conversation, Heard, Done
<1>1. pc' = "done" /\ outcome' = how /\ held' = FALSE /\ records' = recs /\ response' = NoResponse
  OBVIOUS
<1>2. TypeOK'
  <2>1. Size' = Size
    BY DEF Size, Lines
  <2>2. records' \in Seq(BOOLEAN)
    <3>1. <<FALSE>> \in Seq(BOOLEAN) /\ <<>> \in Seq(BOOLEAN)
      OBVIOUS
    <3> QED BY <1>1, <3>1
  <2>3. {ends', repeats', torn', silent', held'} \subseteq BOOLEAN
    BY DEF Typed, TypeOK
  <2> QED BY <1>1, <2>1, <2>2, <2>3 DEF Typed, TypeOK
<1>3. Typed'
  <2>1. response'.calls = <<>> /\ Sequence(<<>>)
    <3>1. <<>> \in Seq({})
      OBVIOUS
    <3> QED BY <3>1, SequenceOf DEF NoResponse, Response
  <2> QED BY <1>2, <2>1 DEF Typed, Sequence
<1>4. Bookkept'
  BY <1>1 DEF Bookkept, AccountedOnce, Waiting
<1>5. Assembling'
  BY <1>1 DEF Assembling, Quiet
<1>6. StreamedIsWhole' /\ CutIsPrefix' /\ ShownIsTheAnswer'
  BY <1>1 DEF StreamedIsWhole, CutIsPrefix, ShownIsTheAnswer
<1>7. JudgedBeforeShown'
  <2>1. outcome # "ok"
    BY DEF Bookkept
  <2> QED BY <2>1 DEF JudgedBeforeShown
<1> QED BY <1>3, <1>4, <1>5, <1>6, <1>7

\* A job that goes on to its stream.
LEMMA JobGoesOn ==
  ASSUME IInv, pc \in Quiet, pc' \in Quiet \ {"idle"},
         UNCHANGED <<Conversation, Heard, torn, fold, shown, outcome, response, records>>,
         held', held' \in BOOLEAN, silent' \in BOOLEAN,
         turn' \in 0..MaxTurns,
         attempt' \in 1..MaxAttempts, waited' \in 0..((MaxAttempts - 1) * MaxBackoff),
         waited' <= (attempt' - 1) * MaxBackoff
  PROVE  IInv'
<1> USE DEF IInv, Conversation, Heard
<1>1. outcome = "none" /\ pc # "done" /\ records = <<>> /\ pc' \in Waiting
  BY DEF Quiet, Waiting, Bookkept, AccountedOnce
<1>2. TypeOK'
  <2>1. Size' = Size
    BY DEF Size, Lines
  <2> QED BY <1>1, <2>1 DEF Typed, TypeOK
<1>3. Typed'
  BY <1>2 DEF Typed, Sequence
<1>4. Bookkept'
  BY <1>1 DEF Bookkept, AccountedOnce, Waiting, Quiet
<1>5. Assembling'
  BY DEF Assembling, Quiet
<1>6. /\ StreamedIsWhole' /\ CutIsPrefix' /\ ShownIsTheAnswer'
  BY <1>1 DEF StreamedIsWhole, CutIsPrefix, ShownIsTheAnswer
<1>7. JudgedBeforeShown'
  BY <1>1 DEF JudgedBeforeShown
<1> QED BY <1>3, <1>4, <1>5, <1>6, <1>7

LEMMA BeginSteps == ASSUME IInv, Begin PROVE IInv'
<1>1. /\ pc = "idle" /\ turn < MaxTurns /\ turn' = turn + 1
      /\ UNCHANGED <<dialect, messages, meant, job, wire>>
  BY DEF Begin
<1>2. turn' \in 0..MaxTurns
  <2>1. turn \in 0..MaxTurns /\ MaxTurns \in Nat
    BY ProviderCallAssumption DEF IInv, Typed, TypeOK
  <2> QED BY <1>1, <2>1
<1>3. CASE Done("refused", NoResponse, <<>>) /\ UNCHANGED shown
  <2>1. torn' \in BOOLEAN
    BY <1>1 DEF wire, IInv, Typed, TypeOK
  <2>2. UNCHANGED <<Conversation, Heard, attempt, waited, shown>>
    BY <1>1, <1>3 DEF Conversation, Heard, job, wire
  <2> QED BY <1>1, <1>2, <1>3, <2>1, <2>2, JobEnds
<1>4. CASE /\ pc' = IF dialect \in SignedIn THEN "bearer" ELSE "send"
           /\ held' = TRUE /\ UNCHANGED <<silent, told>>
  <2>1. pc' \in Quiet \ {"idle"} /\ pc \in Quiet
    BY <1>1, <1>4 DEF Quiet
  <2>2. UNCHANGED <<Conversation, Heard, torn, fold, shown, outcome, response, records, attempt, waited>>
    BY <1>1, <1>4 DEF Conversation, Heard, job, wire, told
  <2>3. /\ attempt' \in 1..MaxAttempts /\ waited' \in 0..((MaxAttempts - 1) * MaxBackoff)
        /\ waited' <= (attempt' - 1) * MaxBackoff
    BY <2>2 DEF IInv, Typed, TypeOK
  <2>4. silent' \in BOOLEAN
    BY <1>4 DEF IInv, Typed, TypeOK
  <2> QED BY <1>2, <1>4, <2>1, <2>2, <2>3, <2>4, JobGoesOn
<1> QED BY <1>3, <1>4 DEF Begin

\* A job that ends where it was, its provider's failure recorded or not.
LEMMA EndsThere ==
  ASSUME IInv, pc \in Waiting, UNCHANGED <<dialect, messages, meant, turn, job, shown>>,
         UNCHANGED wire,
         ProviderError \/ Done("aborted", NoResponse, <<>>)
  PROVE  IInv'
<1>1. pc # "done" /\ turn' \in 0..MaxTurns /\ torn' \in BOOLEAN
  BY DEF Waiting, wire, IInv, Typed, TypeOK
<1>2. UNCHANGED <<Conversation, Heard, attempt, waited, shown>>
  BY DEF Conversation, Heard, job, wire
<1> QED BY <1>1, <1>2, JobEnds DEF ProviderError

\* A job that goes on as it was.
LEMMA GoesOnThere ==
  ASSUME IInv, pc \in Quiet \ {"idle"}, pc' \in Quiet \ {"idle"},
         UNCHANGED <<dialect, messages, meant, turn, job, wire, held, told>>,
         silent' \in BOOLEAN
  PROVE  IInv'
<1>1. UNCHANGED <<Conversation, Heard, torn, fold, shown, outcome, response, records, attempt, waited, turn, held>>
  BY DEF Conversation, Heard, job, wire, told
<1>2. pc \in Waiting
  BY DEF Waiting, Quiet
<1>3. held /\ held \in BOOLEAN
  BY <1>2 DEF IInv, Bookkept, AccountedOnce, Typed, TypeOK
<1>4. /\ attempt' \in 1..MaxAttempts /\ waited' \in 0..((MaxAttempts - 1) * MaxBackoff)
      /\ waited' <= (attempt' - 1) * MaxBackoff /\ turn' \in 0..MaxTurns
  BY <1>1 DEF IInv, Typed, TypeOK
<1> QED BY <1>1, <1>3, <1>4, JobGoesOn

LEMMA BearerSteps == ASSUME IInv, Bearer PROVE IInv'
<1>1. pc = "bearer" /\ UNCHANGED <<dialect, messages, meant, turn, job, wire>>
  BY DEF Bearer
<1>2. CASE pc' = "send" /\ silent' = FALSE /\ UNCHANGED <<held, told>>
  BY <1>1, <1>2, GoesOnThere DEF Quiet
<1>3. CASE ProviderError /\ UNCHANGED shown
  BY <1>1, <1>3, EndsThere DEF Waiting
<1> QED BY <1>2, <1>3 DEF Bearer

LEMMA RetrySteps == ASSUME IInv, Retry PROVE IInv'
<1>1. pc = "send" /\ UNCHANGED <<dialect, messages, meant, turn, ask, wire>>
  BY DEF Retry
<1>2. ASSUME attempt < MaxAttempts, NEW asked \in Asked,
             waited' = waited + Backoff(attempt, asked),
             attempt' = attempt + 1, pc' = "backoff",
             UNCHANGED <<silent, held, told>>
      PROVE  IInv'
  <2>1. /\ attempt \in 1..MaxAttempts /\ waited \in 0..((MaxAttempts - 1) * MaxBackoff)
        /\ waited <= (attempt - 1) * MaxBackoff /\ turn' \in 0..MaxTurns
        /\ MaxBackoff \in Nat /\ MaxAttempts \in Nat \ {0}
    BY <1>1, ProviderCallAssumption DEF IInv, Typed, TypeOK
  <2>2. Backoff(attempt, asked) \in 0..MaxBackoff
    <3>1. attempt \in Nat \ {0}
      BY <2>1
    <3> QED BY <3>1, BackoffBound
  <2> DEFINE b == Backoff(attempt, asked)
  <2> HIDE DEF b
  <2>3. waited' = waited + b /\ b \in 0..MaxBackoff
    BY <1>2, <2>2 DEF b
  <2>4. waited' \in Nat /\ waited' <= attempt * MaxBackoff
    <3>1. (attempt - 1) * MaxBackoff + MaxBackoff = attempt * MaxBackoff
      BY <2>1
    <3>2. (attempt - 1) * MaxBackoff \in Nat /\ attempt * MaxBackoff \in Nat
      BY <2>1
    <3> QED BY <2>1, <2>3, <3>1, <3>2
  <2>5. attempt * MaxBackoff <= (MaxAttempts - 1) * MaxBackoff
    <3>1. attempt <= MaxAttempts - 1
      BY <1>2, <2>1
    <3> QED BY <2>1, <3>1
  <2>6. (attempt' - 1) = attempt /\ attempt' \in 1..MaxAttempts
    BY <1>2, <2>1
  <2>7. waited' \in 0..((MaxAttempts - 1) * MaxBackoff) /\ waited' <= (attempt' - 1) * MaxBackoff
    <3>1. (MaxAttempts - 1) * MaxBackoff \in Nat /\ attempt * MaxBackoff \in Nat
      BY <2>1
    <3> QED BY <2>4, <2>5, <2>6, <3>1
  <2>8. pc \in Quiet /\ pc' \in Quiet \ {"idle"}
    BY <1>1, <1>2 DEF Quiet
  <2>9. held' /\ held' \in BOOLEAN
    BY <1>1, <1>2 DEF Waiting, IInv, Bookkept, AccountedOnce, Typed, TypeOK
  <2>10. UNCHANGED <<Conversation, Heard, torn, fold, shown, outcome, response, records>>
    BY <1>1, <1>2 DEF Conversation, Heard, wire, told
  <2>11. silent' \in BOOLEAN
    BY <1>2 DEF IInv, Typed, TypeOK
  <2> QED BY <2>1, <2>6, <2>7, <2>8, <2>9, <2>10, <2>11, JobGoesOn
<1>3. CASE ProviderError /\ UNCHANGED <<attempt, waited, shown>>
  BY <1>1, <1>3, EndsThere DEF Waiting, job
<1> QED BY <1>2, <1>3 DEF Retry

LEMMA BackoffEndsSteps == ASSUME IInv, BackoffEnds PROVE IInv'
<1>1. silent' \in BOOLEAN
  BY DEF BackoffEnds, IInv, Typed, TypeOK
<1> QED BY <1>1, GoesOnThere DEF BackoffEnds, Quiet

LEMMA AbortSteps == ASSUME IInv, Abort PROVE IInv'
BY EndsThere DEF Abort

LEMMA FailsSteps == ASSUME IInv, Fails PROVE IInv'
BY EndsThere DEF Fails, Waiting

LEMMA BreaksSteps == ASSUME IInv, Breaks PROVE IInv'
BY EndsThere DEF Breaks, Waiting

LEMMA ReadTimeoutSteps == ASSUME IInv, ReadTimeout PROVE IInv'
<1>1. CASE Retry
  BY <1>1, RetrySteps
<1>2. CASE /\ pc \in Reading /\ silent /\ ProviderError
           /\ UNCHANGED <<dialect, messages, meant, turn, job, wire, shown>>
  BY <1>2, EndsThere DEF Reading, Waiting
<1> QED BY <1>1, <1>2 DEF ReadTimeout

LEMMA AnswersSteps == ASSUME IInv, Answers PROVE IInv'
<1>1. /\ pc = "send" /\ pc' = "stream"
      /\ UNCHANGED <<dialect, messages, meant, turn, job, received, torn, fold,
                     silent, held, told>>
      /\ ends' \in BOOLEAN /\ repeats' \in BOOLEAN
  BY DEF Answers
<1>2. answer' \in Generated
  <2>1. turn \in Nat
    BY ProviderCallAssumption DEF IInv, Typed, TypeOK
  <2> QED BY <2>1, AnsweredType DEF Answers
<1>3. /\ dialect \in Dialect /\ answer' \in AnAnswer
      /\ Len(Wire(dialect, answer', repeats')) \in Nat \ {0}
  <2>1. dialect \in Dialect
    BY ProviderCallAssumption DEF IInv, Typed, TypeOK
  <2> QED BY <1>2, <2>1, GeneratedFacts, WireFacts
<1>4. /\ received' = 0 /\ fold' = NoFold /\ shown' = <<>> /\ outcome' = "none"
      /\ response' = response /\ held' = held /\ records' = records /\ ask' = ask
      /\ attempt' = attempt /\ waited' = waited
      /\ held /\ records = <<>>
  BY <1>1 DEF IInv, Assembling, Quiet, told, job, Bookkept, AccountedOnce, Waiting
<1>5. Size' \in Nat \ {0}
  BY <1>1, <1>3 DEF Size, Lines
<1>6. TypeOK'
  <2>1. 0 \in 0..Size'
    BY <1>5
  <2>2. {ends', repeats', torn', silent', held'} \subseteq BOOLEAN
    BY <1>1, <1>4 DEF IInv, Typed, TypeOK
  <2> QED BY <1>1, <1>4, <2>1, <2>2 DEF IInv, Typed, TypeOK, Waiting
<1>7. Typed'
  BY <1>1, <1>2, <1>4, <1>6 DEF IInv, Typed, Sequence
<1>8. Bookkept'
  BY <1>1, <1>4 DEF Bookkept, AccountedOnce, Waiting
<1>9. Assembling'
  <2>1. Complete(received)' = 0
    <3>1. Complete(received)' = IF 0 = Size' /\ ~ends' THEN Len(Lines)' - 1 ELSE 0 \div 2
      BY <1>4 DEF Complete
    <3> QED BY <1>5, <3>1
  <2>2. Assembled(dialect, answer', repeats', 0, NoFold)
    <3>1. MaxText \in Nat
      BY ProviderCallAssumption
    <3> QED BY <1>1, <1>3, <3>1, NothingAssembled
  <2>3. NoFold.out = <<>>
    BY DEF NoFold
  <2>4. Assembled(dialect', answer', repeats', Complete(received)', fold')
    BY <1>1, <1>4, <2>1, <2>2
  <2> QED BY <1>1, <1>4, <2>3, <2>4 DEF Assembling, Quiet
<1>10. StreamedIsWhole' /\ CutIsPrefix' /\ ShownIsTheAnswer'
  BY <1>4 DEF StreamedIsWhole, CutIsPrefix, ShownIsTheAnswer
<1>11. JudgedBeforeShown'
  BY <1>4 DEF JudgedBeforeShown
<1> QED BY <1>7, <1>8, <1>9, <1>10, <1>11 DEF IInv

----------------------------------------------------------------------------
(* The stream *)

LEMMA CompleteFacts ==
  ASSUME dialect \in Backend, answer \in Generated, NEW p \in 0..Size
  PROVE  /\ Complete(p) \in 0..Len(Lines)
         /\ \A q \in 0..Size : p < q => Complete(p) <= Complete(q)
         /\ p = Size /\ ends => Complete(p) = Len(Lines)
         /\ p = Size /\ ~ends => Complete(p) = Len(Lines) - 1
<1> DEFINE n == Len(Lines)
<1>1. n \in Nat \ {0} /\ Size = 2 * n
  BY LinesFacts
<1>2. \A q \in 0..Size : Complete(q) = IF q = Size /\ ~ends THEN n - 1 ELSE q \div 2
  BY DEF Complete
<1> HIDE DEF n
<1>3. Complete(p) \in 0..n
  <2>1. p \div 2 \in 0..n /\ n - 1 \in 0..n
    BY <1>1
  <2>2. Complete(p) = IF p = Size /\ ~ends THEN n - 1 ELSE p \div 2
    BY <1>2
  <2> QED BY <2>1, <2>2
<1>4. ASSUME NEW q \in 0..Size, p < q
      PROVE  Complete(p) <= Complete(q)
  <2>1. Complete(p) = p \div 2
    BY <1>1, <1>2, <1>4
  <2>2. CASE q = Size /\ ~ends
    <3>1. Complete(q) = n - 1
      BY <1>2, <2>2
    <3>2. p \div 2 <= n - 1
      BY <1>1, <1>4, <2>2
    <3> QED BY <2>1, <3>1, <3>2
  <2>3. CASE ~(q = Size /\ ~ends)
    <3>1. Complete(q) = q \div 2
      BY <1>2, <2>3
    <3>2. p \div 2 <= q \div 2
      BY <1>1, <1>4
    <3> QED BY <2>1, <3>1, <3>2
  <2> QED BY <2>2, <2>3
<1>5. p = Size => (ends => Complete(p) = n) /\ (~ends => Complete(p) = n - 1)
  BY <1>1, <1>2
<1> QED BY <1>3, <1>4, <1>5 DEF n

\* The lines a chunk completes are those of the wire, torn or not.
LEMMA FreshAssembled ==
  ASSUME dialect \in Backend, answer \in Generated, repeats \in BOOLEAN,
         received \in 0..Size, NEW p \in 0..Size, received < p,
         Assembled(dialect, answer, repeats, Complete(received), fold)
  PROVE  Assembled(dialect, answer, repeats, Complete(p), Fed(Complete(p)))
<1> DEFINE from == Complete(received) + 1
           line(i) == IF i = from /\ torn THEN Torn(Lines[i]) ELSE Lines[i]
           n == Complete(p) - from + 1
           fresh == [k \in 1..n |-> line(from + k - 1)]
<1>1. /\ dialect \in Dialect /\ answer \in AnAnswer
      /\ Lines \in Seq(ALine) /\ Len(Lines) = WireLen(dialect, answer)
      /\ MaxText \in Nat /\ MaxCalls \in Nat
  BY LinesFacts, ProviderCallAssumption
<1>2. Complete(received) \in 0..Len(Lines) /\ Complete(p) \in 0..Len(Lines)
      /\ Complete(received) <= Complete(p)
  BY CompleteFacts
<1>3. n \in Nat /\ Complete(received) + n = Complete(p) /\ Len(Lines) \in Nat
  <2>1. Len(Lines) \in Nat
    BY <1>1, LenProperties
  <2> QED BY <1>2, <2>1
<1>4. ASSUME NEW k \in 1..n
      PROVE  /\ from + k - 1 = Complete(received) + k
             /\ Complete(received) + k \in 1..Len(Lines)
             /\ Reads(line(from + k - 1), Lines[Complete(received) + k])
  <2>1. from + k - 1 = Complete(received) + k /\ Complete(received) + k \in 1..Len(Lines)
    BY <1>2, <1>3
  <2>2. Lines[Complete(received) + k] \in ALine
    BY <1>1, <2>1, ElementOfSeq
  <2>3. /\ Reads(Lines[Complete(received) + k], Lines[Complete(received) + k])
        /\ Reads(Torn(Lines[Complete(received) + k]), Lines[Complete(received) + k])
    BY <2>2, ReadsFacts
  <2> QED BY <2>1, <2>3
<1>5. fresh \in Seq(ALine) /\ Len(fresh) = n
  <2>1. \A k \in 1..n : line(from + k - 1) \in ALine
    BY <1>4 DEF Reads
  <2>2. fresh \in [1..n -> ALine]
    BY <2>1
  <2> HIDE DEF fresh, n
  <2> QED BY <1>3, <2>2, FunctionIsSeq
<1>6. Fed(Complete(p)) = FeedAll(dialect, fold, fresh)
  BY DEF Fed
<1>7. \A j \in 1..Len(fresh) : Reads(fresh[j], Wire(dialect, answer, repeats)[Complete(received) + j])
  <2> SUFFICES ASSUME NEW j \in 1..n
               PROVE  Reads(fresh[j], Lines[Complete(received) + j])
    BY <1>5 DEF Lines
  <2> QED BY <1>4
<1> HIDE DEF fresh, n, from
<1>8. Assembled(dialect, answer, repeats, Complete(received) + Len(fresh), FeedAll(dialect, fold, fresh))
  <2>1. Complete(received) \in Nat /\ Complete(received) + Len(fresh) <= WireLen(dialect, answer)
    BY <1>1, <1>2, <1>3, <1>5
  <2> QED BY <1>1, <1>5, <1>7, <2>1, FedAssembled
<1> QED BY <1>3, <1>5, <1>6, <1>8

LEMMA ChunkSteps == ASSUME IInv, Chunk PROVE IInv'
<1>1. /\ pc = "stream" /\ received < Size
      /\ shown' = Shows(fold') /\ silent' = FALSE
      /\ UNCHANGED <<dialect, messages, meant, turn, pc, job, answer, ends, repeats,
                     held, outcome, response, records>>
  BY DEF Chunk
<1>2. PICK to \in {received + 1, received + 2, Size} \cap 1..Size :
        /\ received' = to /\ fold' = Fed(Complete(to)) /\ torn' \in BOOLEAN
  BY DEF Chunk
<1>3. /\ dialect \in Backend /\ answer \in Generated /\ repeats \in BOOLEAN
      /\ received \in 0..Size /\ Typed
      /\ Assembled(dialect, answer, repeats, Complete(received), fold)
      /\ shown = IF MustBuffer THEN <<>> ELSE fold.out
  BY <1>1 DEF IInv, Typed, TypeOK, Assembling
<1>4. Size \in Nat /\ to \in 0..Size /\ received < to
  <2>1. Size \in Nat
    BY <1>3, LinesFacts
  <2> QED BY <1>1, <1>2, <1>3, <2>1
<1>5. Assembled(dialect, answer, repeats, Complete(to), fold')
  BY <1>2, <1>3, <1>4, FreshAssembled
<1>6. Size' = Size /\ Lines' = Lines
  BY <1>1 DEF Size, Lines
<1>7. Complete(received)' = Complete(to)
  BY <1>1, <1>2, <1>6 DEF Complete
<1>8. ask' = ask /\ attempt' = attempt /\ waited' = waited /\ outcome = "none"
  BY <1>1 DEF job, IInv, Bookkept
<1>9. TypeOK'
  BY <1>1, <1>2, <1>4, <1>6, <1>8 DEF IInv, Typed, TypeOK
<1>10. Typed'
  BY <1>1, <1>8, <1>9 DEF IInv, Typed, Sequence
<1>11. Bookkept'
  BY <1>1 DEF IInv, Bookkept, AccountedOnce
<1>12. Assembling'
  <2>1. shown' = IF MustBuffer THEN <<>> ELSE fold'.out
    BY <1>1, <1>3 DEF Shows
  <2>2. MustBuffer' = MustBuffer
    BY <1>8 DEF MustBuffer
  <2>3. Assembled(dialect', answer', repeats', Complete(received)', fold')
    BY <1>1, <1>5, <1>7
  <2> QED BY <1>1, <2>1, <2>2, <2>3 DEF Assembling, Quiet
<1>13. StreamedIsWhole' /\ CutIsPrefix' /\ ShownIsTheAnswer'
  BY <1>1, <1>8 DEF StreamedIsWhole, CutIsPrefix, ShownIsTheAnswer
<1>14. JudgedBeforeShown'
  BY <1>1, <1>3, <1>8 DEF JudgedBeforeShown, Shows, MustBuffer
<1> QED BY <1>10, <1>11, <1>12, <1>13, <1>14 DEF IInv

\* A last line without a newline is folded, or dropped, at the end.
LEMMA RemainingAssembled ==
  ASSUME dialect \in Backend, answer \in Generated, repeats \in BOOLEAN,
         received \in 0..Size,
         Assembled(dialect, answer, repeats, Complete(received), fold)
  PROVE  \E k \in Nat :
           /\ Assembled(dialect, answer, repeats, k, Remaining)
           /\ Remaining.out = fold.out
           /\ Received /\ (ends \/ KeepsUnterminated(dialect)) => k = WireLen(dialect, answer)
<1>1. /\ dialect \in Dialect /\ answer \in AnAnswer
      /\ Lines \in Seq(ALine) /\ Len(Lines) = WireLen(dialect, answer)
      /\ Len(Lines) \in Nat \ {0} /\ MaxText \in Nat /\ MaxCalls \in Nat
  BY LinesFacts, ProviderCallAssumption
<1>2. /\ Complete(received) \in Nat
      /\ Received /\ ends => Complete(received) = WireLen(dialect, answer)
      /\ Received /\ ~ends => Complete(received) = WireLen(dialect, answer) - 1
  BY <1>1, CompleteFacts DEF Received
<1>3. CASE KeepsUnterminated(dialect) /\ received = Size /\ ~ends
  <2> DEFINE k == WireLen(dialect, answer) - 1
             last == Lines[Len(Lines)]
             l == IF torn THEN Torn(last) ELSE last
  <2>1. Remaining = Feed(dialect, fold, l)
    BY <1>3 DEF Remaining, Last
  <2>2. k \in Nat /\ k < WireLen(dialect, answer) /\ k + 1 = WireLen(dialect, answer) /\ Complete(received) = k
    BY <1>1, <1>2, <1>3 DEF Received
  <2>3. last \in ALine
    BY <1>1, ElementOfSeq
  <2>4. Reads(l, last)
    BY <2>3, ReadsFacts
  <2>5. last = EndLine(dialect, answer, repeats)
    BY <1>1, WireFacts DEF Lines
  <2>6. last = Wire(dialect, answer, repeats)[k + 1]
    BY <1>1, <2>2 DEF Lines
  <2> HIDE DEF k, l, last
  <2>7. Assembled(dialect, answer, repeats, k + 1, Remaining)
    BY <1>1, <2>1, <2>2, <2>4, <2>6, AssembledStep
  <2>8. Remaining.out = fold.out
    <3>1. Assembled(dialect, answer, repeats, k, fold)
      BY <2>2
    <3>2. Reads(l, EndLine(dialect, answer, repeats))
      BY <2>4, <2>5
    <3>3. Feed(dialect, fold, l).out = fold.out
      BY <1>1, <2>2, <3>1, <3>2, EndAddsNoText
    <3> QED BY <2>1, <3>3
  <2> QED BY <1>1, <2>2, <2>7, <2>8
<1>4. CASE ~(KeepsUnterminated(dialect) /\ received = Size /\ ~ends)
  <2>1. Remaining = fold
    BY <1>4 DEF Remaining
  <2>2. Received /\ (ends \/ KeepsUnterminated(dialect)) => Complete(received) = WireLen(dialect, answer)
    BY <1>2, <1>4 DEF Received
  <2> QED BY <1>2, <2>1, <2>2
<1> QED BY <1>3, <1>4

\* What the gateway makes of a response: it refuses it, or it gives an answer
\* that is the response unless tools or a schema were asked for.
LEMMA JudgeFacts ==
  ASSUME NEW resp, resp = Response(resp.text, resp.calls, resp.usage),
         resp.text \in AText, Sequence(resp.calls), Judge(resp)
  PROVE  \/ Done("refused", NoResponse, <<>>) /\ UNCHANGED shown
         \/ /\ Done("ok", response', <<TRUE>>)
            /\ Sequence(response'.calls)
            /\ shown' = IF MustBuffer THEN response'.text ELSE shown
            /\ ~MustBuffer => response' = resp
<1> DEFINE markup == NormalizeMarkup(resp.text, ask.tools)
           reads  == resp.calls = <<>> /\ ask.tools # {} /\ markup.found
           read   == IF reads THEN [resp EXCEPT !.text = markup.text, !.calls = markup.calls]
                     ELSE resp
           unfenced == [read EXCEPT !.text = Unfenced(@)]
<1>1. Sequence(markup.calls)
  <2>1. \E S : markup.calls \in Seq(S)
    BY MarkupFacts
  <2> HIDE DEF markup
  <2> QED BY <2>1, SequenceOf
<1>2. /\ read = Response(read.text, read.calls, read.usage) /\ Sequence(read.calls)
      /\ ~MustBuffer => read = resp
  <2> HIDE DEF markup
  <2>1. CASE reads
    BY <1>1, <2>1 DEF Response, MustBuffer
  <2>2. CASE ~reads
    BY <2>2
  <2> QED BY <2>1, <2>2
<1> HIDE DEF read, reads
<1>3. unfenced.calls = read.calls
  BY <1>2 DEF Response
<1> HIDE DEF unfenced
<1>4. \/ Done("refused", NoResponse, <<>>) /\ UNCHANGED shown
      \/ ask.schema = "strict" /\ Accepted(unfenced)
      \/ ask.schema # "strict" /\ Accepted(read)
  BY DEF Judge, Refused, read, reads, unfenced
<1>5. ask.schema = "strict" => MustBuffer
  BY DEF MustBuffer
<1> QED BY <1>2, <1>3, <1>4, <1>5 DEF Accepted, Done

\* Shown from the deltas, given from the terminal event.
LEMMA LikeBoth ==
  ASSUME NEW s, NEW t, NEW u, LikePrefix(s, u), LikeText(t, u),
         DOMAIN s = 1..Len(s), DOMAIN t = 1..Len(t), u \in AText,
         NEW i \in DOMAIN s
  PROVE  i \in DOMAIN t /\ (Like(s[i], t[i]) \/ Like(t[i], s[i]))
<1>1. u \in Seq(Word) /\ Len(u) \in Nat
  BY LenProperties DEF AText
<1>2. /\ Len(s) = Len(SubSeq(u, 1, Len(s))) /\ Len(s) <= Len(u) /\ Len(t) = Len(u)
      /\ \A j \in DOMAIN s : Like(s[j], SubSeq(u, 1, Len(s))[j])
      /\ \A j \in DOMAIN t : Like(t[j], u[j])
  BY DEF LikePrefix, LikeText
<1>3. Len(s) \in Nat
  <2>1. SubSeq(u, 1, Len(s)) \in Seq(Word)
    <3>1. \A j \in 1..Len(s) : j \in 1..Len(u)
      BY <1>1, <1>2
    <3> QED BY <1>1, <3>1
  <2> QED BY <1>2, <2>1, LenProperties
<1>4. i \in 1..Len(t)
  BY <1>1, <1>2, <1>3
<1>5. SubSeq(u, 1, Len(s))[i] = u[i]
  <2>1. 1 \in 1..(Len(u) + 1) /\ Len(s) \in 0..Len(u)
    BY <1>1, <1>2, <1>3
  <2> QED BY <1>1, <1>2, <2>1, SubSeqProperties
<1>6. Like(s[i], u[i]) /\ Like(t[i], u[i])
  BY <1>2, <1>4, <1>5
<1> QED BY <1>4, <1>6 DEF Like

LEMMA EndOfStreamSteps == ASSUME IInv, EndOfStream PROVE IInv'
<1>1. /\ pc = "stream" /\ fold' = Remaining
      /\ UNCHANGED <<dialect, messages, meant, turn, job, answer, ends, repeats, received, torn>>
      /\ \/ ProviderError /\ UNCHANGED shown
         \/ ~fold'.full /\ Judge(Finish(dialect, fold'))
  BY DEF EndOfStream
<1>2. UNCHANGED <<Conversation, Heard, attempt, waited>> /\ turn' \in 0..MaxTurns /\ torn' \in BOOLEAN
  BY <1>1 DEF Conversation, Heard, job, IInv, Typed, TypeOK
<1>3. CASE ProviderError /\ UNCHANGED shown
  BY <1>1, <1>2, <1>3, JobEnds DEF ProviderError
<1>4. CASE ~fold'.full /\ Judge(Finish(dialect, fold'))
  <2> DEFINE resp == Finish(dialect, fold')
  <2>1. /\ dialect \in Backend /\ answer \in Generated /\ repeats \in BOOLEAN
        /\ received \in 0..Size /\ Typed
        /\ Assembled(dialect, answer, repeats, Complete(received), fold)
        /\ shown = IF MustBuffer THEN <<>> ELSE fold.out
    BY <1>1 DEF IInv, Typed, TypeOK, Assembling
  <2>2. /\ dialect \in Dialect /\ answer \in AnAnswer
        /\ MaxText \in Nat /\ MaxCalls \in Nat
        /\ \A i \in 1..Len(answer.calls) : answer.calls[i].id # NoId
    BY <2>1, LinesFacts, GeneratedFacts, ProviderCallAssumption
  <2>3. PICK k \in Nat :
           /\ Assembled(dialect, answer, repeats, k, fold')
           /\ fold'.out = fold.out
           /\ Received /\ (ends \/ KeepsUnterminated(dialect)) => k = WireLen(dialect, answer)
    BY <1>1, <2>1, RemainingAssembled
  <2>4. /\ resp.text \in AText
        /\ resp.text = fold'.out \/ (dialect = "chatgpt" /\ LikeText(resp.text, answer.text))
        /\ LikePrefix(resp.text, answer.text) /\ LikePrefix(fold'.out, answer.text)
        /\ k = WireLen(dialect, answer) => LikeText(resp.text, answer.text)
    BY <1>4, <2>1, <2>2, <2>3, FinishText
  <2>5. CallsGiven(dialect, answer, k = WireLen(dialect, answer), resp.calls)
    BY <2>1, <2>2, <2>3, FinishCalls
  <2>6. /\ resp.usage = (k = WireLen(dialect, answer))
        /\ Whole(dialect, answer).usage = TRUE /\ Whole(dialect, answer).text = answer.text
    BY <2>2, <2>3, FinishUsage
  <2>7. resp = Response(resp.text, resp.calls, resp.usage)
    BY <2>2 DEF Finish, OpenAIFinish, AnthropicFinish, GeminiFinish, OllamaFinish,
       ChatGptFinish, Response, Dialect
  <2>8. Sequence(resp.calls)
    <3>1. \E S : resp.calls \in Seq(S)
      BY <2>1, <2>2, <2>3, FinishSequence
    <3> HIDE DEF resp
    <3> QED BY <3>1, SequenceOf
  <2> HIDE DEF resp
  <2>9. \/ Done("refused", NoResponse, <<>>) /\ UNCHANGED shown
        \/ /\ Done("ok", response', <<TRUE>>)
           /\ Sequence(response'.calls)
           /\ shown' = IF MustBuffer THEN response'.text ELSE shown
           /\ ~MustBuffer => response' = resp
    BY <1>4, <2>4, <2>7, <2>8, JudgeFacts DEF resp
  <2>10. CASE Done("refused", NoResponse, <<>>) /\ UNCHANGED shown
    BY <1>1, <1>2, <2>10, JobEnds
  <2>11. CASE /\ Done("ok", response', <<TRUE>>)
              /\ Sequence(response'.calls)
              /\ shown' = IF MustBuffer THEN response'.text ELSE shown
              /\ ~MustBuffer => response' = resp
    <3>1. /\ pc' = "done" /\ ~held' /\ held' \in BOOLEAN /\ silent' \in BOOLEAN
          /\ outcome' = "ok" /\ records' = <<TRUE>>
      BY <2>11 DEF Done
    <3>2. /\ Lines' = Lines /\ Size' = Size /\ ask' = ask /\ MustBuffer' = MustBuffer
          /\ received' = received /\ ends' = ends /\ answer' = answer /\ dialect' = dialect
      BY <1>1 DEF Lines, Size, MustBuffer, job
    <3>3. TypeOK'
      <4>1. <<TRUE>> \in Seq(BOOLEAN)
        OBVIOUS
      <4> QED BY <1>1, <1>2, <3>1, <3>2, <4>1 DEF IInv, Typed, TypeOK, Conversation, Heard
    <3>4. Typed'
      BY <1>1, <1>2, <2>11, <3>2, <3>3 DEF IInv, Typed, Sequence
    <3>5. Bookkept'
      BY <3>1 DEF Bookkept, AccountedOnce, Waiting
    <3>6. Assembling'
      BY <3>1 DEF Assembling, Quiet
    <3>7. Plain => ~MustBuffer
      BY DEF Plain, MustBuffer
    <3>8. StreamedIsWhole'
      <4> SUFFICES ASSUME Plain, ~Capped, Received, ends \/ KeepsUnterminated(dialect)
                   PROVE  /\ LikeText(resp.text, Whole(dialect, answer).text)
                          /\ LikeCalls(resp.calls, Whole(dialect, answer).calls)
                          /\ resp.usage = Whole(dialect, answer).usage
        BY <2>11, <3>2, <3>7 DEF StreamedIsWhole, Plain, Capped, Received
      <4>1. k = WireLen(dialect, answer)
        BY <2>3
      <4>2. LikeCalls(resp.calls, Whole(dialect, answer).calls)
        BY <2>5, <4>1 DEF CallsGiven, Capped
      <4> QED BY <2>4, <2>6, <4>1, <4>2
    <3>9. CutIsPrefix'
      <4> SUFFICES ASSUME Plain
                   PROVE  /\ LikePrefix(resp.text, answer.text)
                          /\ Len(resp.calls) <= Len(answer.calls)
                          /\ \A i \in DOMAIN resp.calls :
                               \/ LikeCall(resp.calls[i], Whole(dialect, answer).calls[i])
                               \/ /\ i = Len(resp.calls) /\ dialect \in {"openai", "anthropic"}
                                  /\ LostItsEnd(dialect, resp.calls[i], answer.calls[i])
        BY <2>11, <3>2, <3>7 DEF CutIsPrefix, Plain
      <4>1. Len(answer.calls) \in Nat
        BY <2>1, GeneratedFacts
      <4>2. /\ Len(resp.calls) \in 0..Len(answer.calls)
            /\ \A i \in DOMAIN resp.calls :
                 \/ LikeCall(resp.calls[i], Whole(dialect, answer).calls[i])
                 \/ /\ i = Len(resp.calls) /\ dialect \in {"openai", "anthropic"}
                    /\ LostItsEnd(dialect, resp.calls[i], answer.calls[i])
        BY <2>5 DEF CallsGiven
      <4> QED BY <2>4, <4>1, <4>2
    <3>10. ShownIsTheAnswer'
      <4>1. CASE MustBuffer
        BY <2>11, <3>2, <4>1 DEF ShownIsTheAnswer, Like
      <4>2. CASE ~MustBuffer
        <5>1. shown' = fold'.out /\ response' = resp
          BY <2>1, <2>3, <2>11, <4>2
        <5>2. CASE resp.text = fold'.out
          BY <3>2, <5>1, <5>2 DEF ShownIsTheAnswer, Like
        <5>3. CASE dialect = "chatgpt" /\ LikeText(resp.text, answer.text)
          <6>1. fold'.out \in AText /\ answer.text \in AText
            BY <2>2, <2>3 DEF Assembled, AFold, AnAnswer
          <6>2. DOMAIN fold'.out = 1..Len(fold'.out) /\ DOMAIN resp.text = 1..Len(resp.text)
            BY <2>4, <6>1, LenProperties DEF AText
          <6>3. \A i \in DOMAIN fold'.out :
                  i \in DOMAIN resp.text /\
                  (Like(fold'.out[i], resp.text[i]) \/ Like(resp.text[i], fold'.out[i]))
            BY <2>4, <5>3, <6>1, <6>2, LikeBoth
          <6> QED BY <3>2, <5>1, <5>3, <6>3 DEF ShownIsTheAnswer
        <5> QED BY <2>4, <5>2, <5>3
      <4> QED BY <4>1, <4>2
    <3>11. JudgedBeforeShown'
      BY <3>1 DEF JudgedBeforeShown
    <3> QED BY <3>4, <3>5, <3>6, <3>8, <3>9, <3>10, <3>11 DEF IInv
  <2> QED BY <2>9, <2>10, <2>11
<1> QED BY <1>1, <1>3, <1>4

----------------------------------------------------------------------------
(* The next turn *)

\* The messages that hold the result of a tool.
Results(ms) == {i \in DOMAIN ms : ms[i].role = "tool"}

LEMMA SequenceAndOne ==
  ASSUME NEW s, Sequence(s), NEW e
  PROVE  /\ Sequence(s \o <<e>>) /\ Len(s \o <<e>>) = Len(s) + 1
         /\ \A i \in 1..Len(s) : (s \o <<e>>)[i] = s[i]
         /\ (s \o <<e>>)[Len(s) + 1] = e
<1> DEFINE one == <<e>>
<1>1. one \in Seq({e}) /\ Len(one) = 1 /\ one[1] = e
  OBVIOUS
<1> HIDE DEF one
<1>2. Sequence(one)
  BY <1>1, SequenceOf
<1>3. /\ Sequence(s \o one) /\ Len(s \o one) = Len(s) + Len(one)
      /\ \A i \in 1..Len(s) : (s \o one)[i] = s[i]
      /\ \A i \in 1..Len(one) : (s \o one)[Len(s) + i] = one[i]
  BY <1>2, SequenceConcat
<1>4. (s \o one)[Len(s) + 1] = one[1]
  <2>1. 1 \in 1..Len(one)
    BY <1>1
  <2> QED BY <1>3, <2>1
<1> QED BY <1>1, <1>3, <1>4 DEF one

LEMMA ResultsAdded ==
  ASSUME NEW ms, Sequence(ms), NEW n \in Nat, NEW said, said.role # "tool",
         NEW tools, tools = [i \in 1..n |-> tools[i]], \A i \in 1..n : tools[i].role = "tool"
  PROVE  /\ Sequence(ms \o <<said>> \o tools)
         /\ Cardinality(Results(ms \o <<said>> \o tools)) = Cardinality(Results(ms)) + n
<1> DEFINE one == <<said>>
           all == ms \o one \o tools
           old == Results(ms)
           new == (Len(ms) + 2)..(Len(ms) + 1 + n)
<1>1. /\ Len(ms) \in Nat /\ DOMAIN ms = 1..Len(ms)
      /\ Sequence(one) /\ Len(one) = 1 /\ one[1] = said
      /\ Sequence(tools) /\ Len(tools) = n
  <2>1. one \in Seq({said})
    OBVIOUS
  <2> QED BY <2>1, SequenceFacts, SequenceOf, FunctionIsSequence
<1>2. /\ Sequence(ms \o one) /\ Len(ms \o one) = Len(ms) + 1
      /\ \A i \in 1..Len(ms) : (ms \o one)[i] = ms[i]
      /\ (ms \o one)[Len(ms) + 1] = said
  BY <1>1, SequenceAndOne
<1>3. /\ Sequence(all) /\ Len(all) = Len(ms) + 1 + n
      /\ \A i \in 1..(Len(ms) + 1) : all[i] = (ms \o one)[i]
      /\ \A i \in 1..n : all[Len(ms) + 1 + i] = tools[i]
  <2> HIDE DEF one
  <2> QED BY <1>1, <1>2, SequenceConcat
<1>4. DOMAIN all = 1..(Len(ms) + 1 + n)
  BY <1>3, SequenceFacts
<1> HIDE DEF all
<1>5. Results(all) = old \cup new
  <2>1. ASSUME NEW i \in 1..(Len(ms) + 1 + n)
        PROVE  all[i].role = "tool" <=> i \in old \/ i \in new
    <3>1. CASE i \in 1..Len(ms)
      <4>1. all[i] = ms[i] /\ i \notin new
        BY <1>1, <1>2, <1>3, <3>1
      <4> QED BY <1>1, <3>1, <4>1 DEF Results
    <3>2. CASE i = Len(ms) + 1
      <4>1. all[i] = said /\ i \notin new /\ i \notin DOMAIN ms
        BY <1>1, <1>2, <1>3, <3>2
      <4> QED BY <4>1 DEF Results
    <3>3. CASE i \notin 1..(Len(ms) + 1)
      <4>1. i - (Len(ms) + 1) \in 1..n /\ Len(ms) + 1 + (i - (Len(ms) + 1)) = i /\ i \in new
        BY <1>1, <3>3
      <4>2. all[i] = tools[i - (Len(ms) + 1)]
        <5>1. all[Len(ms) + 1 + (i - (Len(ms) + 1))] = tools[i - (Len(ms) + 1)]
          BY <1>3, <4>1
        <5> QED BY <4>1, <5>1
      <4> QED BY <4>1, <4>2
    <3> QED BY <1>1, <3>1, <3>2, <3>3
  <2>2. old \subseteq 1..(Len(ms) + 1 + n) /\ new \subseteq 1..(Len(ms) + 1 + n)
    BY <1>1 DEF Results
  <2> HIDE DEF old, new
  <2> QED BY <1>4, <2>1, <2>2 DEF Results
<1>6. /\ IsFiniteSet(old) /\ old \cap new = {}
  <2>1. old \subseteq 1..Len(ms)
    BY <1>1 DEF Results
  <2>2. IsFiniteSet(1..Len(ms))
    <3>1. 1 \in Int /\ Len(ms) \in Int
      BY <1>1
    <3> QED BY <3>1, FS_Interval
  <2>3. IsFiniteSet(old)
    BY <2>1, <2>2, FS_Subset
  <2>4. \A i \in 1..Len(ms) : i \notin new
    BY <1>1
  <2> HIDE DEF old, new
  <2> QED BY <2>1, <2>3, <2>4
<1>7. IsFiniteSet(new) /\ Cardinality(new) = n
  <2> DEFINE p == Len(ms) + 2
             q == Len(ms) + 1 + n
  <2>1. p \in Int /\ q \in Int /\ (p > q <=> n = 0) /\ q - p + 1 = n
    BY <1>1
  <2> HIDE DEF p, q
  <2>2. IsFiniteSet(p..q) /\ Cardinality(p..q) = IF p > q THEN 0 ELSE q - p + 1
    BY <2>1, FS_Interval
  <2>3. new = p..q
    BY DEF p, q
  <2> QED BY <2>1, <2>2, <2>3
<1> HIDE DEF old, new
<1>8. Cardinality(old \cup new) = Cardinality(old) + n
  <2>1. /\ Cardinality(old) \in Nat
        /\ Cardinality(old \cup new) = Cardinality(old) + Cardinality(new) - Cardinality(old \cap new)
        /\ Cardinality({}) = 0
    <3>1. Cardinality(old) \in Nat
      BY <1>6, FS_CardinalityType
    <3>2. Cardinality(old \cup new) = Cardinality(old) + Cardinality(new) - Cardinality(old \cap new)
      BY <1>6, <1>7, FS_Union
    <3> QED BY <3>1, <3>2, FS_EmptySet
  <2>2. Cardinality(old \cap new) = 0
    BY <1>6, <2>1
  <2> QED BY <1>7, <2>1, <2>2
<1> QED BY <1>3, <1>5, <1>8 DEF all, old

LEMMA NextTurnSteps == ASSUME IInv, NextTurn PROVE IInv'
<1> DEFINE n == Len(response.calls)
           said == Message("assistant", response.text, response.calls, NoId)
<1>1. /\ pc = "done" /\ pc' = "idle" /\ turn' = turn
      /\ ask' \in Ask /\ attempt' = 1 /\ waited' = 0
      /\ answer' = NoAnswer /\ ends' = TRUE /\ repeats' = FALSE
      /\ received' = 0 /\ torn' = FALSE /\ fold' = NoFold
      /\ shown' = <<>> /\ outcome' = "none" /\ response' = NoResponse /\ records' = <<>>
      /\ dialect' = dialect /\ held' = held /\ silent' = silent
  BY DEF NextTurn
<1>2. PICK o \in Orders(n) :
        /\ messages' = messages \o <<said>>
             \o [i \in DOMAIN response.calls |->
                   Message("tool", <<"t">>, <<>>, response.calls[o[i]].id)]
        /\ meant' = meant \o [i \in DOMAIN response.calls |-> response.calls[o[i]].name]
  BY DEF NextTurn
<1>3. /\ Sequence(messages) /\ Sequence(meant) /\ TypeOK
      /\ n \in Nat /\ DOMAIN response.calls = 1..n
  BY SequenceFacts DEF IInv, Typed
<1> DEFINE tools == [i \in 1..n |-> Message("tool", <<"t">>, <<>>, response.calls[o[i]].id)]
           names == [i \in 1..n |-> response.calls[o[i]].name]
<1> HIDE DEF n
<1>4. messages' = messages \o <<said>> \o tools /\ meant' = meant \o names
  BY <1>2, <1>3
<1>5. /\ Sequence(messages')
      /\ Cardinality(Results(messages')) = Cardinality(Results(messages)) + n
  <2>1. said.role # "tool" /\ tools = [i \in 1..n |-> tools[i]]
        /\ \A i \in 1..n : tools[i].role = "tool"
    BY DEF Message
  <2> HIDE DEF said, tools
  <2> QED BY <1>3, <1>4, <2>1, ResultsAdded
<1>6. Sequence(meant') /\ Len(meant') = Len(meant) + n
  <2>1. names = [i \in 1..n |-> names[i]]
    OBVIOUS
  <2> HIDE DEF names
  <2>2. Sequence(names) /\ Len(names) = n
    BY <1>3, <2>1, FunctionIsSequence
  <2> QED BY <1>3, <1>4, <2>2, SequenceConcat
<1>7. Len(meant') = Cardinality({i \in DOMAIN messages' : messages'[i].role = "tool"})
  <2>1. Len(meant) = Cardinality(Results(messages))
    BY <1>3 DEF TypeOK, Results
  <2> QED BY <1>5, <1>6, <2>1 DEF Results
<1>8. answer' \in Generated
  BY <1>1, NoAnswerType
<1>9. Size' \in Nat
  <2>1. dialect \in Dialect /\ answer' \in AnAnswer
    BY <1>3, <1>8, GeneratedFacts, ProviderCallAssumption DEF TypeOK
  <2>2. Len(Wire(dialect, answer', repeats')) \in Nat
    BY <2>1, WireFacts
  <2> QED BY <1>1, <2>2 DEF Size, Lines
<1>10. MaxAttempts \in Nat \ {0} /\ MaxBackoff \in Nat
  BY ProviderCallAssumption
<1>11. 0 \in 0..((MaxAttempts - 1) * MaxBackoff) /\ 0 <= (1 - 1) * MaxBackoff /\ 1 \in 1..MaxAttempts
  <2>1. (MaxAttempts - 1) * MaxBackoff \in Nat /\ (1 - 1) * MaxBackoff = 0
    BY <1>10
  <2> QED BY <1>10, <2>1
<1>12. ~held /\ held \in BOOLEAN
  BY <1>1, <1>3 DEF IInv, Bookkept, AccountedOnce, TypeOK
<1>13. TypeOK'
  <2>1. 0 \in 0..Size' /\ <<>> \in Seq(BOOLEAN)
    BY <1>9, EmptySeq
  <2> QED BY <1>1, <1>3, <1>7, <1>11, <1>12, <2>1 DEF TypeOK
<1>14. Typed'
  <2>1. Sequence(response'.calls)
    <3>1. response'.calls = <<>> /\ <<>> \in Seq({})
      BY <1>1 DEF NoResponse, Response
    <3> QED BY <3>1, SequenceOf
  <2> QED BY <1>1, <1>5, <1>6, <1>8, <1>11, <1>13, <2>1 DEF Typed, Sequence
<1>15. Bookkept'
  BY <1>1, <1>12 DEF Bookkept, AccountedOnce, Waiting
<1>16. Assembling'
  BY <1>1 DEF Assembling, Quiet
<1>17. StreamedIsWhole' /\ CutIsPrefix' /\ ShownIsTheAnswer' /\ JudgedBeforeShown'
  BY <1>1 DEF StreamedIsWhole, CutIsPrefix, ShownIsTheAnswer, JudgedBeforeShown
<1> QED BY <1>14, <1>15, <1>16, <1>17 DEF IInv

----------------------------------------------------------------------------
(* The theorems *)

\* Time that passes, or a step of something else.
LEMMA Stutters ==
  ASSUME IInv, UNCHANGED <<dialect, messages, meant, turn, pc, job, wire, held, told>>,
         silent' \in BOOLEAN
  PROVE  IInv'
<1> USE DEF job, wire, told
<1>1. Size' = Size /\ Lines' = Lines /\ MustBuffer' = MustBuffer /\ Plain' = Plain
      /\ Complete(received)' = Complete(received)
  BY DEF Size, Lines, MustBuffer, Plain, Complete
<1>2. Typed'
  BY <1>1 DEF IInv, Typed, TypeOK, Sequence
<1>3. Bookkept' /\ Assembling'
  BY <1>1 DEF IInv, Bookkept, AccountedOnce, Assembling
<1>4. StreamedIsWhole' /\ CutIsPrefix'
  BY <1>1 DEF IInv, StreamedIsWhole, CutIsPrefix, Capped, Received
<1>5. ShownIsTheAnswer' /\ JudgedBeforeShown'
  BY DEF IInv, ShownIsTheAnswer, JudgedBeforeShown
<1> QED BY <1>2, <1>3, <1>4, <1>5 DEF IInv

\* Every step of a conversation keeps the invariant.
THEOREM CallInvariant == Spec => []IInv
<1>1. Init => IInv
  BY Starts
<1>2. IInv /\ [Next]_vars => IInv'
  <2> SUFFICES ASSUME IInv, [Next]_vars PROVE IInv'
    OBVIOUS
  <2>1. CASE Begin
    BY <2>1, BeginSteps
  <2>2. CASE Bearer
    BY <2>2, BearerSteps
  <2>3. CASE Answers
    BY <2>3, AnswersSteps
  <2>4. CASE Retry
    BY <2>4, RetrySteps
  <2>5. CASE BackoffEnds
    BY <2>5, BackoffEndsSteps
  <2>6. CASE Fails
    BY <2>6, FailsSteps
  <2>7. CASE Chunk
    BY <2>7, ChunkSteps
  <2>8. CASE EndOfStream
    BY <2>8, EndOfStreamSteps
  <2>9. CASE Breaks
    BY <2>9, BreaksSteps
  <2>10. CASE ReadTimeout
    BY <2>10, ReadTimeoutSteps
  <2>11. CASE Abort
    BY <2>11, AbortSteps
  <2>12. CASE NextTurn
    BY <2>12, NextTurnSteps
  <2>13. CASE Silence \/ Drip \/ UNCHANGED vars
    <3>1. silent' \in BOOLEAN
      BY <2>13 DEF Silence, Drip, vars, IInv, Typed, TypeOK
    <3>2. UNCHANGED <<dialect, messages, meant, turn, pc, job, wire, held, told>>
      BY <2>13 DEF Silence, Drip, vars
    <3> QED BY <3>1, <3>2, Stutters
  <2> QED BY <2>1, <2>2, <2>3, <2>4, <2>5, <2>6, <2>7, <2>8, <2>9, <2>10, <2>11, <2>12, <2>13 DEF Next
<1> QED BY <1>1, <1>2, PTL DEF Spec

\* Every variable keeps its type, waiting is bounded, and each tool result of
\* the conversation has the function it is of.
THEOREM CallTypeCorrect == Spec => []TypeOK
<1>1. IInv => TypeOK
  BY DEF IInv, Typed
<1> QED BY <1>1, CallInvariant, PTL

\* A stream received whole gives what the adapter's blocking call gives.
THEOREM StreamGivesTheWhole == Spec => []StreamedIsWhole
<1>1. IInv => StreamedIsWhole
  BY DEF IInv
<1> QED BY <1>1, CallInvariant, PTL

\* A stream cut anywhere gives a beginning of what was generated.
THEOREM CutGivesABeginning == Spec => []CutIsPrefix
<1>1. IInv => CutIsPrefix
  BY DEF IInv
<1> QED BY <1>1, CallInvariant, PTL

\* What was shown while it was generated is the answer given at the end.
THEOREM ShownIsGiven == Spec => []ShownIsTheAnswer
<1>1. IInv => ShownIsTheAnswer
  BY DEF IInv
<1> QED BY <1>1, CallInvariant, PTL

\* Nothing is shown of an answer before it is judged, or when it is refused.
THEOREM JudgedIsUnseen == Spec => []JudgedBeforeShown
<1>1. IInv => JudgedBeforeShown
  BY DEF IInv
<1> QED BY <1>1, CallInvariant, PTL

\* A job that ended is accounted for once, and its reservation given back.
THEOREM JobsAreAccounted == Spec => []AccountedOnce
<1>1. IInv => AccountedOnce
  BY DEF IInv, Bookkept
<1> QED BY <1>1, CallInvariant, PTL

----------------------------------------------------------------------------
(* Sequences that are joined and filtered *)

LEMMA RangeOf ==
  ASSUME NEW S, NEW s \in Seq(S)
  PROVE  \A x : x \in Range(s) <=> \E i \in 1..Len(s) : x = s[i]
<1>1. DOMAIN s = 1..Len(s)
  BY LenProperties
<1> QED BY <1>1 DEF Range

LEMMA RangeConcat ==
  ASSUME NEW S, NEW s \in Seq(S), NEW t \in Seq(S)
  PROVE  Range(s \o t) = Range(s) \cup Range(t)
<1> DEFINE u == s \o t
<1>1. /\ u \in Seq(S) /\ Len(u) = Len(s) + Len(t)
      /\ \A i \in 1..(Len(s) + Len(t)) :
           u[i] = IF i <= Len(s) THEN s[i] ELSE t[i - Len(s)]
      /\ Len(s) \in Nat /\ Len(t) \in Nat
  BY ConcatProperties, LenProperties
<1> HIDE DEF u
<1>2. ASSUME NEW x \in Range(u) PROVE x \in Range(s) \cup Range(t)
  <2>1. PICK i \in 1..(Len(s) + Len(t)) : x = u[i]
    BY <1>1, <1>2, RangeOf
  <2>2. CASE i <= Len(s)
    <3>1. i \in 1..Len(s) /\ x = s[i]
      BY <1>1, <2>1, <2>2
    <3> QED BY <3>1, RangeOf
  <2>3. CASE ~(i <= Len(s))
    <3>1. i - Len(s) \in 1..Len(t) /\ x = t[i - Len(s)]
      BY <1>1, <2>1, <2>3
    <3> QED BY <3>1, RangeOf
  <2> QED BY <2>2, <2>3
<1>3. ASSUME NEW x \in Range(s) PROVE x \in Range(u)
  <2>1. PICK i \in 1..Len(s) : x = s[i]
    BY <1>3, RangeOf
  <2>2. i \in 1..Len(u) /\ i <= Len(s)
    BY <1>1
  <2>3. u[i] = s[i]
    BY <1>1, <2>2
  <2> QED BY <1>1, <2>1, <2>2, <2>3, RangeOf
<1>4. ASSUME NEW x \in Range(t) PROVE x \in Range(u)
  <2>1. PICK i \in 1..Len(t) : x = t[i]
    BY <1>4, RangeOf
  <2>2. Len(s) + i \in 1..Len(u) /\ ~(Len(s) + i <= Len(s)) /\ (Len(s) + i) - Len(s) = i
    BY <1>1
  <2>3. u[Len(s) + i] = t[i]
    BY <1>1, <2>2
  <2> QED BY <1>1, <2>1, <2>2, <2>3, RangeOf
<1> QED BY <1>2, <1>3, <1>4 DEF u

\* FlattenSeq takes one sequence after the other.
FlattensTo(U, seqs, g) ==
  /\ g \in [0..Len(seqs) -> Seq(U)] /\ g[0] = <<>>
  /\ \A k \in 1..Len(seqs) : g[k] = g[k - 1] \o seqs[k]
  /\ FlattenSeq(seqs) = g[Len(seqs)]

LEMMA FlattenFrom ==
  ASSUME NEW U, NEW seqs \in Seq(Seq(U))
  PROVE  \E g : FlattensTo(U, seqs, g)
<1> DEFINE n == Len(seqs)
<1>1. n \in Nat /\ \A i \in 1..n : seqs[i] \in Seq(U)
  BY LenProperties, ElementOfSeq
<1>2. CASE n = 0
  <2>1. seqs = <<>> /\ <<>> \in Seq(U)
    BY <1>2, EmptySeq
  <2>2. FlattenSeq(seqs) = <<>>
    BY <1>2, <2>1 DEF FlattenSeq
  <2> DEFINE g == [k \in 0..n |-> <<>>]
  <2>3. g \in [0..n -> Seq(U)] /\ g[0] = <<>> /\ g[n] = <<>> /\ 1..n = {}
    BY <1>2, <2>1
  <2> HIDE DEF g
  <2> QED BY <2>2, <2>3 DEF FlattensTo
<1>3. CASE n # 0
  <2>1. PICK h : FlattenTo(seqs, n, h) /\ FlattenSeq(seqs) = h[n]
    BY <1>3, FlattenSteps
  <2>2. \A i \in 1..n : h[i] = IF i = 1 THEN seqs[i] ELSE h[i - 1] \o seqs[i]
    BY <2>1 DEF FlattenTo
  <2> DEFINE g == [k \in 0..n |-> IF k = 0 THEN <<>> ELSE h[k]]
  <2>3. g[0] = <<>> /\ g[n] = h[n] /\ \A i \in 1..n : g[i] = h[i]
    BY <1>1, <1>3
  <2>4. ASSUME NEW k \in 1..n PROVE g[k] = g[k - 1] \o seqs[k]
    <3>1. CASE k = 1
      <4>1. g[k] = seqs[k] /\ g[k - 1] = <<>>
        BY <2>2, <2>3, <3>1
      <4>2. <<>> \o seqs[k] = seqs[k]
        BY <1>1, ConcatEmptySeq
      <4> QED BY <4>1, <4>2
    <3>2. CASE k # 1
      <4>1. k - 1 \in 1..n
        BY <1>1, <3>2
      <4>2. h[k] = h[k - 1] \o seqs[k]
        BY <2>2, <3>2
      <4> QED BY <2>3, <4>1, <4>2
    <3> QED BY <3>1, <3>2
  <2> DEFINE T == {k \in Nat : k <= n => g[k] \in Seq(U)}
  <2> HIDE DEF g
  <2>5. 0 \in T
    BY <2>3, EmptySeq
  <2>6. ASSUME NEW k \in Nat, k \in T PROVE k + 1 \in T
    <3>1. k + 1 <= n => g[k] \in Seq(U) /\ k + 1 \in 1..n /\ (k + 1) - 1 = k
      BY <1>1, <2>6
    <3>2. k + 1 <= n => g[k + 1] = g[k] \o seqs[k + 1] /\ seqs[k + 1] \in Seq(U)
      BY <1>1, <2>4, <3>1
    <3>3. k + 1 <= n => g[k + 1] \in Seq(U)
      BY <3>1, <3>2, ConcatProperties
    <3> QED BY <3>3
  <2>7. Nat \subseteq T
    <3> HIDE DEF T
    <3> QED BY <2>5, <2>6, Induction
  <2>8. g \in [0..n -> Seq(U)]
    <3>1. g = [k \in 0..n |-> g[k]]
      BY DEF g
    <3>2. \A k \in 0..n : k \in Nat /\ k <= n
      BY <1>1
    <3> QED BY <2>7, <3>1, <3>2
  <2> QED BY <2>1, <2>3, <2>4, <2>8 DEF FlattensTo
<1> QED BY <1>2, <1>3

\* Its elements are those of the sequences.
LEMMA FlattenElements ==
  ASSUME NEW U, NEW seqs \in Seq(Seq(U))
  PROVE  /\ FlattenSeq(seqs) \in Seq(U)
         /\ \A x : x \in Range(FlattenSeq(seqs)) <=>
                     \E i \in 1..Len(seqs) : x \in Range(seqs[i])
<1> DEFINE n == Len(seqs)
<1>1. n \in Nat /\ \A i \in 1..n : seqs[i] \in Seq(U)
  BY LenProperties, ElementOfSeq
<1>2. PICK g : FlattensTo(U, seqs, g)
  BY FlattenFrom
<1>3. /\ \A k \in 0..n : g[k] \in Seq(U)
      /\ g[0] = <<>>
      /\ \A k \in 1..n : g[k] = g[k - 1] \o seqs[k]
      /\ FlattenSeq(seqs) = g[n]
  BY <1>2 DEF FlattensTo
<1> DEFINE T == {k \in Nat : k <= n =>
                   \A x : x \in Range(g[k]) <=> \E i \in 1..k : x \in Range(seqs[i])}
<1>4. 0 \in T
  <2>1. Range(g[0]) = {}
    <3> DOMAIN <<>> = {} OBVIOUS
    <3> QED BY <1>3 DEF Range
  <2> QED BY <2>1
<1>5. ASSUME NEW k \in Nat, k \in T PROVE k + 1 \in T
  <2>1. CASE k + 1 <= n
    <3>1. g[k] \in Seq(U) /\ seqs[k + 1] \in Seq(U) /\ g[k + 1] = g[k] \o seqs[k + 1]
      <4>1. k \in 0..n /\ k + 1 \in 1..n /\ (k + 1) - 1 = k
        BY <1>1, <2>1
      <4> QED BY <1>1, <1>3, <4>1
    <3>2. Range(g[k + 1]) = Range(g[k]) \cup Range(seqs[k + 1])
      BY <3>1, RangeConcat
    <3>3. \A x : x \in Range(g[k]) <=> \E i \in 1..k : x \in Range(seqs[i])
      BY <1>5, <2>1
    <3>4. \A i : i \in 1..(k + 1) <=> i \in 1..k \/ i = k + 1
      OBVIOUS
    <3>5. \A x : x \in Range(g[k + 1]) <=> \E i \in 1..(k + 1) : x \in Range(seqs[i])
      BY <3>2, <3>3, <3>4
    <3> QED BY <3>5
  <2>2. CASE ~(k + 1 <= n)
    BY <2>2
  <2> QED BY <2>1, <2>2
<1>6. Nat \subseteq T
  <2> HIDE DEF T
  <2> QED BY <1>4, <1>5, Induction
<1>7. \A x : x \in Range(g[n]) <=> \E i \in 1..n : x \in Range(seqs[i])
  <2>1. n \in T
    <3> HIDE DEF T
    <3> QED BY <1>1, <1>6
  <2>2. n <= n
    BY <1>1
  <2> QED BY <2>1, <2>2
<1>8. n \in 0..n
  BY <1>1
<1> QED BY <1>3, <1>7, <1>8

LEMMA ConcatElements ==
  ASSUME NEW S, NEW s \in Seq(S), NEW t \in Seq(S)
  PROVE  /\ s \o t \in Seq(S) /\ Len(s \o t) = Len(s) + Len(t)
         /\ Len(s) \in Nat /\ Len(t) \in Nat
         /\ \A i \in 1..Len(s) : (s \o t)[i] = s[i]
         /\ \A i \in 1..Len(t) : (s \o t)[Len(s) + i] = t[i]
<1> DEFINE u == s \o t
<1>1. /\ u \in Seq(S) /\ Len(u) = Len(s) + Len(t)
      /\ \A i \in 1..(Len(s) + Len(t)) :
           u[i] = IF i <= Len(s) THEN s[i] ELSE t[i - Len(s)]
      /\ Len(s) \in Nat /\ Len(t) \in Nat
  BY ConcatProperties, LenProperties
<1> HIDE DEF u
<1>2. ASSUME NEW i \in 1..Len(s) PROVE u[i] = s[i]
  <2>1. i \in 1..(Len(s) + Len(t)) /\ i <= Len(s)
    BY <1>1
  <2> QED BY <1>1, <2>1
<1>3. ASSUME NEW i \in 1..Len(t) PROVE u[Len(s) + i] = t[i]
  <2>1. Len(s) + i \in 1..(Len(s) + Len(t)) /\ ~(Len(s) + i <= Len(s)) /\ (Len(s) + i) - Len(s) = i
    BY <1>1
  <2> QED BY <1>1, <2>1
<1> QED BY <1>1, <1>2, <1>3 DEF u

LEMMA FlattenConcat ==
  ASSUME NEW U, NEW s \in Seq(Seq(U)), NEW t \in Seq(Seq(U))
  PROVE  FlattenSeq(s \o t) = FlattenSeq(s) \o FlattenSeq(t)
<1> DEFINE u == s \o t
           m == Len(s)
           n == Len(t)
<1>1. /\ u \in Seq(Seq(U)) /\ Len(u) = m + n /\ m \in Nat /\ n \in Nat
      /\ \A i \in 1..m : u[i] = s[i]
      /\ \A i \in 1..n : u[m + i] = t[i]
  BY ConcatElements
<1> HIDE DEF u
<1>2. PICK f : FlattensTo(U, s, f)
  BY FlattenFrom
<1>3. PICK g : FlattensTo(U, t, g)
  BY FlattenFrom
<1>4. PICK h : FlattensTo(U, u, h)
  BY <1>1, FlattenFrom
<1>5. /\ \A i \in 1..n : t[i] \in Seq(U)
      /\ \A i \in 0..m : f[i] \in Seq(U)
      /\ \A i \in 0..n : g[i] \in Seq(U)
  BY <1>2, <1>3, ElementOfSeq DEF FlattensTo
<1>6. /\ f[0] = <<>> /\ \A k \in 1..m : f[k] = f[k - 1] \o s[k]
      /\ g[0] = <<>> /\ \A k \in 1..n : g[k] = g[k - 1] \o t[k]
      /\ h[0] = <<>> /\ \A k \in 1..(m + n) : h[k] = h[k - 1] \o u[k]
      /\ FlattenSeq(s) = f[m] /\ FlattenSeq(t) = g[n] /\ FlattenSeq(u) = h[m + n]
  BY <1>1, <1>2, <1>3, <1>4 DEF FlattensTo
<1>a. m \in Nat /\ n \in Nat
  BY <1>1
<1> HIDE DEF m, n
<1> DEFINE S == {k \in Nat : k <= m => h[k] = f[k]}
<1>7. 0 \in S
  BY <1>6
<1>8. ASSUME NEW k \in Nat, k \in S PROVE k + 1 \in S
  <2>1. CASE k + 1 <= m
    <3>1. k + 1 \in 1..m /\ k + 1 \in 1..(m + n) /\ (k + 1) - 1 = k /\ k <= m
      BY <1>a, <2>1
    <3>0. h[k] = f[k]
      BY <1>8, <3>1
    <3>2. h[k + 1] = h[k] \o u[k + 1] /\ f[k + 1] = f[k] \o s[k + 1] /\ u[k + 1] = s[k + 1]
      BY <1>1, <1>6, <3>1
    <3>3. h[k + 1] = f[k + 1]
      BY <3>0, <3>1, <3>2
    <3> QED BY <3>3
  <2>2. CASE ~(k + 1 <= m)
    BY <2>2
  <2> QED BY <2>1, <2>2
<1>9. h[m] = f[m]
  <2>1. Nat \subseteq S
    <3> HIDE DEF S
    <3> QED BY <1>7, <1>8, Induction
  <2>2. m \in S
    <3> HIDE DEF S
    <3> QED BY <1>1, <2>1
  <2>3. m <= m
    BY <1>1
  <2> QED BY <2>2, <2>3
<1> HIDE DEF S
<1> DEFINE Meets(k) == h[m + k] = f[m] \o g[k]
           T == {k \in Nat : k <= n => Meets(k)}
<1>10. 0 \in T
  <2>1. f[m] \in Seq(U)
    BY <1>1, <1>5
  <2>2. f[m] \o <<>> = f[m] /\ m + 0 = m
    BY <1>1, <2>1, ConcatEmptySeq
  <2>3. h[m + 0] = f[m] \o g[0]
    BY <1>6, <1>9, <2>2
  <2> QED BY <2>3
<1>11. ASSUME NEW k \in Nat, k \in T PROVE k + 1 \in T
  <2>1. CASE k + 1 <= n
    <3>1. k + 1 \in 1..n /\ m + (k + 1) \in 1..(m + n) /\ (k + 1) - 1 = k
          /\ (m + (k + 1)) - 1 = m + k /\ k \in 0..n /\ m \in 0..m
          /\ k <= n
      BY <1>a, <2>1
    <3>2. Meets(k)
      <4> HIDE DEF Meets
      <4> QED BY <1>11, <3>1
    <3>3. g[k + 1] = g[k] \o t[k + 1]
      BY <1>6, <3>1
    <3>4. h[m + (k + 1)] = h[m + k] \o u[m + (k + 1)] /\ u[m + (k + 1)] = t[k + 1]
      BY <1>1, <1>6, <3>1
    <3>5. f[m] \in Seq(U) /\ g[k] \in Seq(U) /\ t[k + 1] \in Seq(U)
      BY <1>5, <3>1
    <3>6. \A x, y, z \in Seq(U) : (x \o y) \o z = x \o (y \o z)
      BY ConcatAssociative
    <3>7. (f[m] \o g[k]) \o t[k + 1] = f[m] \o (g[k] \o t[k + 1])
      BY <3>5, <3>6
    <3>8. Meets(k + 1)
      BY <3>2, <3>3, <3>4, <3>7
    <3> HIDE DEF Meets
    <3> QED BY <3>8
  <2>2. CASE ~(k + 1 <= n)
    <3> HIDE DEF Meets
    <3> QED BY <2>2
  <2> QED BY <2>1, <2>2
<1>12. h[m + n] = f[m] \o g[n]
  <2>1. Nat \subseteq T
    <3> HIDE DEF T
    <3> QED BY <1>10, <1>11, Induction
  <2>2. n \in T
    <3> HIDE DEF T
    <3> QED BY <1>1, <2>1
  <2>3. n <= n
    BY <1>1
  <2> QED BY <2>2, <2>3
<1> QED BY <1>6, <1>12 DEF u

----------------------------------------------------------------------------
(* What a filter keeps *)

Pieces(s, S) == [i \in DOMAIN s |-> IF s[i] \in S THEN <<s[i]>> ELSE <<>>]

LEMMA PiecesType ==
  ASSUME NEW U, NEW s \in Seq(U), NEW S
  PROVE  /\ Pieces(s, S) \in Seq(Seq(U)) /\ Len(Pieces(s, S)) = Len(s)
         /\ \A i \in 1..Len(s) : Pieces(s, S)[i] = IF s[i] \in S THEN <<s[i]>> ELSE <<>>
         /\ Kept(s, S) = FlattenSeq(Pieces(s, S))
<1> DEFINE p == Pieces(s, S)
<1>1. Len(s) \in Nat /\ DOMAIN s = 1..Len(s) /\ \A i \in 1..Len(s) : s[i] \in U
  BY LenProperties, ElementOfSeq
<1>2. /\ p = [i \in 1..Len(s) |-> p[i]]
      /\ \A i \in 1..Len(s) : p[i] = IF s[i] \in S THEN <<s[i]>> ELSE <<>>
  BY <1>1 DEF Pieces
<1>3. Kept(s, S) = FlattenSeq(p)
  BY DEF Kept, Pieces
<1> HIDE DEF p
<1>4. ASSUME NEW i \in 1..Len(s) PROVE p[i] \in Seq(U)
  <2>1. <<s[i]>> \in Seq(U) /\ <<>> \in Seq(U)
    BY <1>1, Singleton, EmptySeq
  <2> QED BY <1>2, <2>1
<1>5. p \in [1..Len(s) -> Seq(U)]
  BY <1>2, <1>4
<1>6. p \in Seq(Seq(U)) /\ Len(p) = Len(s)
  BY <1>1, <1>5, FunctionIsSeq
<1> QED BY <1>2, <1>3, <1>6 DEF p

LEMMA KeptElements ==
  ASSUME NEW U, NEW s \in Seq(U), NEW S
  PROVE  /\ Kept(s, S) \in Seq(U)
         /\ \A x : x \in Range(Kept(s, S)) <=> x \in Range(s) /\ x \in S
<1> DEFINE p == Pieces(s, S)
<1>1. /\ p \in Seq(Seq(U)) /\ Len(p) = Len(s)
      /\ \A i \in 1..Len(s) : p[i] = IF s[i] \in S THEN <<s[i]>> ELSE <<>>
      /\ Kept(s, S) = FlattenSeq(p)
  BY PiecesType
<1> HIDE DEF p
<1>2. /\ FlattenSeq(p) \in Seq(U)
      /\ \A x : x \in Range(FlattenSeq(p)) <=> \E i \in 1..Len(p) : x \in Range(p[i])
  BY <1>1, FlattenElements
<1>3. ASSUME NEW i \in 1..Len(s), NEW x
      PROVE  x \in Range(p[i]) <=> x = s[i] /\ x \in S
  <2>1. Range(<<s[i]>>) = {s[i]} /\ Range(<<>>) = {}
    BY DEF Range
  <2> QED BY <1>1, <2>1
<1>4. \A x : x \in Range(s) <=> \E i \in 1..Len(s) : x = s[i]
  BY RangeOf
<1> QED BY <1>1, <1>2, <1>3, <1>4

LEMMA KeptConcat ==
  ASSUME NEW U, NEW s \in Seq(U), NEW t \in Seq(U), NEW S
  PROVE  Kept(s \o t, S) = Kept(s, S) \o Kept(t, S)
<1> DEFINE u == s \o t
           p == Pieces(s, S)
           q == Pieces(t, S)
           r == Pieces(u, S)
<1>1. /\ u \in Seq(U) /\ Len(u) = Len(s) + Len(t)
      /\ Len(s) \in Nat /\ Len(t) \in Nat
      /\ \A i \in 1..Len(s) : u[i] = s[i]
      /\ \A i \in 1..Len(t) : u[Len(s) + i] = t[i]
  BY ConcatElements
<1> HIDE DEF u
<1>2. /\ p \in Seq(Seq(U)) /\ Len(p) = Len(s)
      /\ \A i \in 1..Len(s) : p[i] = IF s[i] \in S THEN <<s[i]>> ELSE <<>>
      /\ Kept(s, S) = FlattenSeq(p)
  BY PiecesType
<1>3. /\ q \in Seq(Seq(U)) /\ Len(q) = Len(t)
      /\ \A i \in 1..Len(t) : q[i] = IF t[i] \in S THEN <<t[i]>> ELSE <<>>
      /\ Kept(t, S) = FlattenSeq(q)
  BY PiecesType
<1>4. /\ r \in Seq(Seq(U)) /\ Len(r) = Len(u)
      /\ \A i \in 1..Len(u) : r[i] = IF u[i] \in S THEN <<u[i]>> ELSE <<>>
      /\ Kept(u, S) = FlattenSeq(r)
  BY <1>1, PiecesType
<1> HIDE DEF p, q, r
<1>5. /\ p \o q \in Seq(Seq(U)) /\ Len(p \o q) = Len(p) + Len(q)
      /\ Len(p) \in Nat /\ Len(q) \in Nat
      /\ \A i \in 1..Len(p) : (p \o q)[i] = p[i]
      /\ \A i \in 1..Len(q) : (p \o q)[Len(p) + i] = q[i]
  BY <1>2, <1>3, ConcatElements
<1>6. ASSUME NEW i \in 1..Len(r) PROVE r[i] = (p \o q)[i]
  <2>1. i \in 1..(Len(s) + Len(t))
    BY <1>1, <1>4
  <2>2. CASE i <= Len(s)
    <3>1. i \in 1..Len(s) /\ i \in 1..Len(u)
      BY <1>1, <2>1, <2>2
    <3> QED BY <1>1, <1>2, <1>4, <1>5, <3>1
  <2>3. CASE ~(i <= Len(s))
    <3>1. PICK j \in 1..Len(t) : i = Len(s) + j
      <4>1. i - Len(s) \in 1..Len(t) /\ i = Len(s) + (i - Len(s))
        BY <1>1, <2>1, <2>3
      <4> QED BY <4>1
    <3>2. i \in 1..Len(u) /\ u[i] = t[j]
      BY <1>1, <2>1, <3>1
    <3>3. (p \o q)[i] = q[j]
      BY <1>2, <1>3, <1>5, <3>1
    <3> QED BY <1>3, <1>4, <3>2, <3>3
  <2> QED BY <2>2, <2>3
<1>7. r = p \o q
  <2>1. Len(r) = Len(p \o q)
    BY <1>1, <1>2, <1>3, <1>4, <1>5
  <2> QED BY <1>4, <1>5, <1>6, <2>1, SeqEqual
<1>8. FlattenSeq(p \o q) = FlattenSeq(p) \o FlattenSeq(q)
  BY <1>2, <1>3, FlattenConcat
<1> QED BY <1>2, <1>3, <1>4, <1>7, <1>8 DEF u

LEMMA KeptSame ==
  ASSUME NEW s, NEW S, NEW T, \A x \in Range(s) : x \in S <=> x \in T
  PROVE  Kept(s, S) = Kept(s, T)
<1>1. \A i \in DOMAIN s : s[i] \in S <=> s[i] \in T
  BY DEF Range
<1> QED BY <1>1 DEF Kept

LEMMA KeptNone ==
  ASSUME NEW U, NEW s \in Seq(U), NEW S, \A x \in Range(s) : x \notin S
  PROVE  Kept(s, S) = <<>>
<1>1. Kept(s, S) \in Seq(U) /\ Range(Kept(s, S)) = {}
  BY KeptElements
<1>2. Len(Kept(s, S)) \in Nat
  BY <1>1, LenProperties
<1>3. ASSUME Len(Kept(s, S)) # 0 PROVE FALSE
  <2>1. 1 \in 1..Len(Kept(s, S))
    BY <1>2, <1>3
  <2> QED BY <1>1, <2>1, RangeOf
<1> QED BY <1>1, <1>3, EmptySeq

LEMMA KeptAll ==
  ASSUME NEW U, NEW s \in Seq(U), NEW S, \A x \in Range(s) : x \in S
  PROVE  Kept(s, S) = s
<1> DEFINE p == Pieces(s, S)
           n == Len(s)
<1>1. /\ p \in Seq(Seq(U)) /\ Len(p) = Len(s)
      /\ \A i \in 1..n : p[i] = IF s[i] \in S THEN <<s[i]>> ELSE <<>>
      /\ Kept(s, S) = FlattenSeq(p)
  BY PiecesType
<1> HIDE DEF p
<1>2. n \in Nat /\ \A i \in 1..n : s[i] \in S /\ s[i] \in U
  BY LenProperties, RangeOf, ElementOfSeq
<1>3. PICK g : FlattensTo(U, p, g)
  BY <1>1, FlattenFrom
<1>4. /\ \A k \in 0..n : g[k] \in Seq(U)
      /\ g[0] = <<>>
      /\ \A k \in 1..n : g[k] = g[k - 1] \o <<s[k]>>
      /\ Kept(s, S) = g[n]
  BY <1>1, <1>2, <1>3 DEF FlattensTo
<1> DEFINE Meets(k) == Len(g[k]) = k /\ \A i \in 1..k : g[k][i] = s[i]
           T == {k \in Nat : k <= n => Meets(k)}
<1>5. 0 \in T
  <2>1. Meets(0)
    BY <1>4, EmptySeq
  <2> QED BY <2>1
<1>6. ASSUME NEW k \in Nat, k \in T PROVE k + 1 \in T
  <2>1. CASE k + 1 <= n
    <3>1. k \in 0..n /\ k + 1 \in 1..n /\ (k + 1) - 1 = k /\ k <= n
      BY <1>2, <2>1
    <3>2. Meets(k)
      <4> HIDE DEF Meets
      <4> QED BY <1>6, <3>1
    <3>3. g[k] \in Seq(U) /\ g[k + 1] = g[k] \o <<s[k + 1]>> /\ s[k + 1] \in U
      BY <1>2, <1>4, <3>1
    <3>4. <<s[k + 1]>> \in Seq(U) /\ Len(<<s[k + 1]>>) = 1 /\ <<s[k + 1]>>[1] = s[k + 1]
      BY <3>3, Singleton
    <3>5. /\ Len(g[k + 1]) = k + 1
          /\ \A i \in 1..k : g[k + 1][i] = g[k][i]
          /\ g[k + 1][k + 1] = s[k + 1]
      <4>1. /\ Len(g[k] \o <<s[k + 1]>>) = Len(g[k]) + Len(<<s[k + 1]>>)
            /\ \A i \in 1..Len(g[k]) : (g[k] \o <<s[k + 1]>>)[i] = g[k][i]
            /\ \A i \in 1..Len(<<s[k + 1]>>) :
                 (g[k] \o <<s[k + 1]>>)[Len(g[k]) + i] = <<s[k + 1]>>[i]
        BY <3>3, <3>4, ConcatElements
      <4>2. 1 \in 1..1
        OBVIOUS
      <4> QED BY <3>2, <3>3, <3>4, <4>1, <4>2
    <3>6. \A i : i \in 1..(k + 1) <=> i \in 1..k \/ i = k + 1
      OBVIOUS
    <3>7. Meets(k + 1)
      BY <3>2, <3>5, <3>6
    <3> HIDE DEF Meets
    <3> QED BY <3>7
  <2>2. CASE ~(k + 1 <= n)
    <3> HIDE DEF Meets
    <3> QED BY <2>2
  <2> QED BY <2>1, <2>2
<1>7. n \in T
  <2>1. Nat \subseteq T
    <3> HIDE DEF T
    <3> QED BY <1>5, <1>6, Induction
  <2> HIDE DEF T
  <2> QED BY <1>2, <2>1
<1>8. Meets(n)
  <2>1. n <= n
    BY <1>2
  <2> HIDE DEF Meets
  <2> QED BY <1>7, <2>1
<1>9. g[n] \in Seq(U) /\ Len(g[n]) = Len(s) /\ \A i \in 1..Len(g[n]) : g[n][i] = s[i]
  BY <1>2, <1>4, <1>8
<1> QED BY <1>4, <1>9, SeqEqual

----------------------------------------------------------------------------
(* The parts of a request, message by message *)

ById   == {"openai", "anthropic", "chatgpt"}
ByName == {"gemini", "code_assist"}

\* A conversation: the system message, then the others; assistants make calls.
Spoken(m) ==
  /\ m.role \in {"system", "user", "assistant", "tool"} /\ Sequence(m.calls)
  /\ m.calls # <<>> => m.role = "assistant"
Conversed(ms) ==
  /\ Sequence(ms) /\ Len(ms) >= 1
  /\ \A i \in 1..Len(ms) : Spoken(ms[i]) /\ (ms[i].role = "system" <=> i = 1)

\* A tool message gives its result, and an assistant its calls.
ResultPart(d, names, m) ==
  IF d \in ByName
  THEN Part("result", m.text, NoId,
            IF m.answers \in DOMAIN names THEN names[m.answers] ELSE "")
  ELSE Part("result", m.text, m.answers, "")

IsCall(x, m) == \E j \in DOMAIN m.calls : x.id = m.calls[j].id /\ x.name = m.calls[j].name

Gives(d, names, m, ps) ==
  /\ Sequence(ps)
  /\ IF m.role = "tool" THEN ps = <<ResultPart(d, names, m)>>
     ELSE \A x \in Range(ps) : x.kind # "result"
  /\ d \in ById =>
       /\ \A x \in Range(ps) : x.kind = "call" => IsCall(x, m)
       /\ \A j \in DOMAIN m.calls : \E x \in Range(ps) :
            x.kind = "call" /\ x.id = m.calls[j].id /\ x.name = m.calls[j].name

PartsFor(d, names, m) ==
  CASE d = "openai" -> IF m.role = "tool" THEN <<Part("result", m.text, m.answers, "")>>
                       ELSE TextPart(m) \o CallParts(m)
    [] d = "anthropic" ->
         IF m.role = "tool" THEN <<Part("result", m.text, m.answers, "")>>
         ELSE IF m.role = "assistant" /\ m.calls # <<>> THEN TextPart(m) \o CallParts(m)
         ELSE <<Part("text", m.text, NoId, "")>>
    [] d = "chatgpt" -> ResponsesItems(m)
    [] OTHER -> GeminiTurn(m, names).parts

LEMMA Together ==
  ASSUME NEW s, NEW t, Sequence(s), Sequence(t)
  PROVE  \E U : s \in Seq(U) /\ t \in Seq(U)
<1> DEFINE R == {s[i] : i \in DOMAIN s}
           T == {t[i] : i \in DOMAIN t}
           U == R \cup T
<1>1. s \in Seq(R) /\ t \in Seq(T)
  BY DEF Sequence
<1> HIDE DEF R, T
<1>2. s \in [1..Len(s) -> R] /\ t \in [1..Len(t) -> T] /\ Len(s) \in Nat /\ Len(t) \in Nat
  BY <1>1, LenProperties
<1>3. s \in [1..Len(s) -> U] /\ t \in [1..Len(t) -> U]
  BY <1>2
<1> HIDE DEF U
<1>4. s \in Seq(U) /\ t \in Seq(U)
  BY <1>2, <1>3, FunctionIsSeq
<1> QED BY <1>4

LEMMA ConcatRange ==
  ASSUME NEW s, NEW t, Sequence(s), Sequence(t)
  PROVE  Sequence(s \o t) /\ Range(s \o t) = Range(s) \cup Range(t)
<1>1. PICK U : s \in Seq(U) /\ t \in Seq(U)
  BY Together
<1>2. Range(s \o t) = Range(s) \cup Range(t)
  BY <1>1, RangeConcat
<1>3. Sequence(s \o t)
  BY SequenceConcat
<1> QED BY <1>2, <1>3

LEMMA OneRange ==
  ASSUME NEW x
  PROVE  Sequence(<<x>>) /\ Range(<<x>>) = {x} /\ Sequence(<<>>) /\ Range(<<>>) = {}
<1>1. <<x>> \in Seq({x}) /\ <<>> \in Seq({x})
  BY Singleton, EmptySeq
<1>2. Sequence(<<x>>) /\ Sequence(<<>>)
  BY <1>1, SequenceOf
<1>3. Range(<<x>>) = {x} /\ Range(<<>>) = {}
  BY DEF Range
<1> QED BY <1>2, <1>3

LEMMA PartFields ==
  ASSUME NEW kind, NEW text, NEW id, NEW name
  PROVE  /\ Part(kind, text, id, name).kind = kind
         /\ Part(kind, text, id, name).id = id
         /\ Part(kind, text, id, name).name = name
BY DEF Part

LEMMA CallPartsFacts ==
  ASSUME NEW m, Sequence(m.calls)
  PROVE  /\ Sequence(TextPart(m)) /\ \A x \in Range(TextPart(m)) : x.kind = "text"
         /\ Sequence(CallParts(m)) /\ Sequence(NoIds(CallParts(m)))
         /\ \A x \in Range(CallParts(m)) : x.kind = "call" /\ IsCall(x, m)
         /\ \A x \in Range(NoIds(CallParts(m))) : x.kind = "call"
         /\ \A j \in DOMAIN m.calls : \E x \in Range(CallParts(m)) :
              x.kind = "call" /\ x.id = m.calls[j].id /\ x.name = m.calls[j].name
<1> DEFINE n == Len(m.calls)
           cs == CallParts(m)
           ns == NoIds(cs)
<1>1. n \in Nat /\ DOMAIN m.calls = 1..n
  BY SequenceFacts
<1>2. /\ cs = [i \in 1..n |-> cs[i]]
      /\ \A i \in 1..n : cs[i] = Part("call", <<>>, m.calls[i].id, m.calls[i].name)
  BY <1>1 DEF CallParts
<1>3. /\ ns = [i \in 1..n |-> ns[i]]
      /\ \A i \in 1..n : ns[i] = [cs[i] EXCEPT !.id = NoId]
  <2>1. DOMAIN cs = 1..n
    BY <1>1 DEF CallParts
  <2> HIDE DEF cs
  <2> QED BY <2>1 DEF NoIds
<1> HIDE DEF cs, ns
<1>4. Sequence(cs) /\ DOMAIN cs = 1..n
  BY <1>1, <1>2, FunctionIsSequence
<1>5. Sequence(ns) /\ DOMAIN ns = 1..n
  BY <1>1, <1>3, FunctionIsSequence
<1>6. \A i \in 1..n : cs[i].kind = "call" /\ cs[i].id = m.calls[i].id /\ cs[i].name = m.calls[i].name
  BY <1>2, PartFields
<1>7. \A i \in 1..n : ns[i].kind = "call"
  <2> TAKE i \in 1..n
  <2>1. [Part("call", <<>>, m.calls[i].id, m.calls[i].name) EXCEPT !.id = NoId].kind = "call"
    BY DEF Part
  <2> QED BY <1>2, <1>3, <2>1
<1>8. Sequence(TextPart(m)) /\ \A x \in Range(TextPart(m)) : x.kind = "text"
  <2>1. \/ TextPart(m) = <<>>
        \/ TextPart(m) = <<Part("text", m.text, NoId, "")>>
    BY DEF TextPart
  <2>2. Part("text", m.text, NoId, "").kind = "text"
    BY DEF Part
  <2>3. CASE TextPart(m) = <<>>
    BY <2>3, OneRange
  <2>4. CASE TextPart(m) = <<Part("text", m.text, NoId, "")>>
    <3> DEFINE t == Part("text", m.text, NoId, "")
    <3>1. Sequence(<<t>>) /\ Range(<<t>>) = {t}
      BY OneRange
    <3> QED BY <2>2, <2>4, <3>1
  <2> QED BY <2>1, <2>3, <2>4
<1>9. \A x \in Range(cs) : x.kind = "call" /\ IsCall(x, m)
  BY <1>1, <1>4, <1>6 DEF Range, IsCall
<1>10. \A x \in Range(ns) : x.kind = "call"
  BY <1>5, <1>7 DEF Range
<1>11. \A j \in 1..n : cs[j] \in Range(cs)
  BY <1>4 DEF Range
<1> QED BY <1>1, <1>4, <1>5, <1>6, <1>8, <1>9, <1>10, <1>11 DEF cs, ns

LEMMA CallsAreGiven ==
  ASSUME NEW d, NEW names, NEW m, Spoken(m), m.role # "tool",
         NEW ts, Sequence(ts), \A x \in Range(ts) : x.kind = "text"
  PROVE  Gives(d, names, m, ts \o CallParts(m))
<1> DEFINE ps == ts \o CallParts(m)
<1>1. /\ Sequence(CallParts(m))
      /\ \A x \in Range(CallParts(m)) : x.kind = "call" /\ IsCall(x, m)
      /\ \A j \in DOMAIN m.calls : \E x \in Range(CallParts(m)) :
           x.kind = "call" /\ x.id = m.calls[j].id /\ x.name = m.calls[j].name
  BY CallPartsFacts DEF Spoken
<1>2. Sequence(ps) /\ Range(ps) = Range(ts) \cup Range(CallParts(m))
  BY <1>1, ConcatRange
<1> HIDE DEF ps
<1>3. \A x \in Range(ps) : x.kind # "result"
  BY <1>1, <1>2
<1>4. \A x \in Range(ps) : x.kind = "call" => IsCall(x, m)
  BY <1>1, <1>2
<1>5. \A j \in DOMAIN m.calls : \E x \in Range(ps) :
        x.kind = "call" /\ x.id = m.calls[j].id /\ x.name = m.calls[j].name
  BY <1>1, <1>2
<1>6. Gives(d, names, m, ps)
  BY <1>2, <1>3, <1>4, <1>5 DEF Gives
<1> QED BY <1>6 DEF ps

LEMMA TextIsText ==
  ASSUME NEW m
  PROVE  /\ Sequence(<<Part("text", m.text, NoId, "")>>)
         /\ \A x \in Range(<<Part("text", m.text, NoId, "")>>) : x.kind = "text"
<1> DEFINE t == Part("text", m.text, NoId, "")
<1>1. t.kind = "text"
  BY DEF Part
<1>2. Sequence(<<t>>) /\ Range(<<t>>) = {t}
  BY OneRange
<1> QED BY <1>1, <1>2

LEMMA TextIsGiven ==
  ASSUME NEW d, NEW names, NEW m, Spoken(m), m.role # "tool", m.calls = <<>> \/ d \in ByName,
         NEW ps, Sequence(ps), \A x \in Range(ps) : x.kind # "result" /\ (d \in ById => x.kind = "text")
  PROVE  Gives(d, names, m, ps)
<1>1. d \in ById => DOMAIN m.calls = {}
  BY DEF ById, ByName
<1>2. d \in ById => \A x \in Range(ps) : x.kind # "call"
  OBVIOUS
<1> QED BY <1>1, <1>2 DEF Gives

LEMMA ResultIsGiven ==
  ASSUME NEW d, NEW names, NEW m, Spoken(m), m.role = "tool"
  PROVE  Gives(d, names, m, <<ResultPart(d, names, m)>>)
<1> DEFINE r == ResultPart(d, names, m)
<1>1. DOMAIN m.calls = {}
  BY DEF Spoken
<1>2. r.kind = "result"
  BY DEF ResultPart, Part
<1> HIDE DEF r
<1>3. Sequence(<<r>>) /\ Range(<<r>>) = {r}
  BY OneRange
<1> QED BY <1>1, <1>2, <1>3 DEF Gives, r

LEMMA PartsGiven ==
  ASSUME NEW d \in ById \cup ByName, NEW names, NEW m, Spoken(m)
  PROVE  Gives(d, names, m, PartsFor(d, names, m))
<1> DEFINE text == <<Part("text", m.text, NoId, "")>>
<1>1. CASE m.role = "tool"
  <2>1. PartsFor(d, names, m) = <<ResultPart(d, names, m)>>
    BY <1>1 DEF PartsFor, ResultPart, ResponsesItems, GeminiTurn, Turn, ById, ByName
  <2> QED BY <1>1, <2>1, ResultIsGiven
<1>2. CASE m.role = "assistant"
  <2>1. /\ Sequence(TextPart(m)) /\ \A x \in Range(TextPart(m)) : x.kind = "text"
        /\ Sequence(CallParts(m)) /\ Sequence(NoIds(CallParts(m)))
        /\ \A x \in Range(CallParts(m)) : x.kind = "call" /\ IsCall(x, m)
        /\ \A x \in Range(NoIds(CallParts(m))) : x.kind = "call"
    BY CallPartsFacts DEF Spoken
  <2>2. Sequence(text) /\ \A x \in Range(text) : x.kind = "text"
    BY TextIsText
  <2>3. Sequence(<<>>) /\ Range(<<>>) = {}
    BY OneRange
  <2>4. CASE d = "openai"
    <3>1. PartsFor(d, names, m) = TextPart(m) \o CallParts(m)
      BY <1>2, <2>4 DEF PartsFor
    <3> QED BY <1>2, <2>1, <3>1, CallsAreGiven
  <2>5. CASE d = "anthropic"
    <3>1. CASE m.calls # <<>>
      <4>1. PartsFor(d, names, m) = TextPart(m) \o CallParts(m)
        BY <1>2, <2>5, <3>1 DEF PartsFor
      <4> QED BY <1>2, <2>1, <4>1, CallsAreGiven
    <3>2. CASE m.calls = <<>>
      <4>1. PartsFor(d, names, m) = text
        BY <1>2, <2>5, <3>2 DEF PartsFor
      <4> QED BY <1>2, <2>2, <3>2, <4>1, TextIsGiven
    <3> QED BY <3>1, <3>2
  <2>6. CASE d = "chatgpt"
    <3>1. \/ PartsFor(d, names, m) = text \o CallParts(m)
          \/ PartsFor(d, names, m) = <<>> \o CallParts(m)
      BY <1>2, <2>6 DEF PartsFor, ResponsesItems
    <3>2. CASE PartsFor(d, names, m) = text \o CallParts(m)
      <4> HIDE DEF text
      <4> QED BY <1>2, <2>2, <3>2, CallsAreGiven
    <3>3. CASE PartsFor(d, names, m) = <<>> \o CallParts(m)
      <4>1. \A x \in Range(<<>>) : x.kind = "text"
        BY <2>3
      <4> QED BY <1>2, <2>3, <3>3, <4>1, CallsAreGiven
    <3> QED BY <3>1, <3>2, <3>3
  <2>7. CASE d \in ByName
    <3> DEFINE all == TextPart(m) \o NoIds(CallParts(m))
    <3>1. \/ PartsFor(d, names, m) = <<Part("text", <<>>, NoId, "")>>
          \/ PartsFor(d, names, m) = all
      <4>1. PartsFor(d, names, m) = GeminiTurn(m, names).parts
        BY <2>7 DEF PartsFor, ByName
      <4>2. GeminiTurn(m, names) = Turn("model", IF all = <<>> THEN <<Part("text", <<>>, NoId, "")>> ELSE all)
        BY <1>2 DEF GeminiTurn
      <4> HIDE DEF all
      <4>3. GeminiTurn(m, names).parts = IF all = <<>> THEN <<Part("text", <<>>, NoId, "")>> ELSE all
        <5>1. \A r, ps : Turn(r, ps).parts = ps
          BY DEF Turn
        <5> QED BY <4>2, <5>1
      <4> QED BY <4>1, <4>3
    <3>2. Sequence(all) /\ Range(all) = Range(TextPart(m)) \cup Range(NoIds(CallParts(m)))
      BY <2>1, ConcatRange
    <3>3. d \notin ById
      BY <2>7 DEF ById, ByName
    <3> HIDE DEF all
    <3>4. CASE PartsFor(d, names, m) = all
      <4>1. \A x \in Range(all) : x.kind # "result"
        BY <2>1, <3>2
      <4> QED BY <1>2, <2>7, <3>2, <3>3, <3>4, <4>1, TextIsGiven
    <3>5. CASE PartsFor(d, names, m) = <<Part("text", <<>>, NoId, "")>>
      <4> DEFINE t == Part("text", <<>>, NoId, "")
      <4>1. t.kind = "text"
        BY DEF Part
      <4>2. Sequence(<<t>>) /\ Range(<<t>>) = {t}
        BY OneRange
      <4> HIDE DEF t
      <4>3. \A x \in Range(<<t>>) : x.kind # "result"
        BY <4>1, <4>2
      <4>4. Gives(d, names, m, <<t>>)
        BY <1>2, <2>7, <3>3, <4>2, <4>3, TextIsGiven
      <4> QED BY <3>5, <4>4 DEF t
    <3> QED BY <3>1, <3>4, <3>5
  <2> QED BY <2>4, <2>5, <2>6, <2>7 DEF ById
<1>3. CASE m.role \in {"user", "system"}
  <2>1. m.calls = <<>>
    BY <1>3 DEF Spoken
  <2>2. Sequence(text) /\ \A x \in Range(text) : x.kind = "text"
    BY TextIsText
  <2>3. CASE d = "openai"
    <3>1. PartsFor(d, names, m) = TextPart(m) \o CallParts(m)
      BY <1>3, <2>3 DEF PartsFor
    <3>2. Sequence(TextPart(m)) /\ \A x \in Range(TextPart(m)) : x.kind = "text"
      BY CallPartsFacts DEF Spoken
    <3> QED BY <1>3, <3>1, <3>2, CallsAreGiven
  <2>4. CASE d # "openai"
    <3>1. PartsFor(d, names, m) = text
      BY <1>3, <2>4 DEF PartsFor, ResponsesItems, GeminiTurn, Turn
    <3> HIDE DEF text
    <3> QED BY <1>3, <2>1, <2>2, <3>1, TextIsGiven
  <2> QED BY <2>3, <2>4
<1> QED BY <1>1, <1>2, <1>3 DEF Spoken

----------------------------------------------------------------------------
(* What a provider is told of the results *)

\* Sequences of sequences have elements of one type.
LEMMA ManyTogether ==
  ASSUME NEW ss, Sequence(ss), \A i \in 1..Len(ss) : Sequence(ss[i])
  PROVE  \E U : ss \in Seq(Seq(U))
<1> DEFINE n == Len(ss)
           U == UNION {Range(ss[i]) : i \in 1..n}
<1>1. n \in Nat /\ DOMAIN ss = 1..n
  BY SequenceFacts
<1>2. ASSUME NEW i \in 1..n PROVE ss[i] \in Seq(U)
  <2>1. ss[i] \in Seq(Range(ss[i])) /\ Range(ss[i]) \subseteq U
    BY DEF Sequence, Range
  <2> HIDE DEF U
  <2>2. ss[i] \in [1..Len(ss[i]) -> Range(ss[i])] /\ Len(ss[i]) \in Nat
    BY <2>1, LenProperties
  <2>3. ss[i] \in [1..Len(ss[i]) -> U]
    BY <2>1, <2>2
  <2> QED BY <2>2, <2>3, FunctionIsSeq
<1>3. ss = [i \in 1..n |-> ss[i]]
  <2>1. ss \in Seq({ss[i] : i \in DOMAIN ss})
    BY DEF Sequence
  <2>2. ss \in [1..n -> {ss[i] : i \in DOMAIN ss}]
    BY <2>1, LenProperties
  <2> QED BY <2>2
<1> HIDE DEF U
<1>4. ss \in [1..n -> Seq(U)]
  <2> HIDE DEF n
  <2> QED BY <1>2, <1>3
<1>5. ss \in Seq(Seq(U))
  BY <1>1, <1>4, FunctionIsSeq
<1> QED BY <1>5

Told(d, names, ms, pieces) ==
  /\ Sequence(ms) /\ Sequence(pieces) /\ Len(pieces) = Len(ms)
  /\ \A i \in 1..Len(ms) : Gives(d, names, ms[i], pieces[i])

Matches(d, names, rs, ts) ==
  /\ Len(rs) = Len(ts)
  /\ \A k \in 1..Len(ts) : rs[k] = ResultPart(d, names, ts[k])

OfKind(ps, kind) == Kept(ps, {p \in Range(ps) : p.kind = kind})

LEMMA MatchOne ==
  ASSUME NEW d, NEW names, NEW rs, NEW ts, NEW m, Sequence(rs), Sequence(ts),
         Matches(d, names, rs, ts)
  PROVE  Matches(d, names, rs \o <<ResultPart(d, names, m)>>, ts \o <<m>>)
<1> DEFINE r == ResultPart(d, names, m)
<1>1. Sequence(<<r>>) /\ Sequence(<<m>>)
  BY OneRange
<1>2. Len(<<r>>) = 1 /\ Len(<<m>>) = 1 /\ <<r>>[1] = r /\ <<m>>[1] = m
  OBVIOUS
<1> HIDE DEF r
<1>3. /\ Len(rs \o <<r>>) = Len(rs) + Len(<<r>>)
      /\ \A i \in 1..Len(rs) : (rs \o <<r>>)[i] = rs[i]
      /\ \A i \in 1..Len(<<r>>) : (rs \o <<r>>)[Len(rs) + i] = <<r>>[i]
  BY <1>1, SequenceConcat
<1>4. /\ Len(ts \o <<m>>) = Len(ts) + Len(<<m>>)
      /\ \A i \in 1..Len(ts) : (ts \o <<m>>)[i] = ts[i]
      /\ \A i \in 1..Len(<<m>>) : (ts \o <<m>>)[Len(ts) + i] = <<m>>[i]
  BY <1>1, SequenceConcat
<1>5. Len(ts) \in Nat /\ Len(rs) = Len(ts) /\ \A k \in 1..Len(ts) : rs[k] = ResultPart(d, names, ts[k])
  BY SequenceFacts DEF Matches
<1>6. 1 \in 1..1
  OBVIOUS
<1>7. (rs \o <<r>>)[Len(ts) + 1] = r /\ (ts \o <<m>>)[Len(ts) + 1] = m
  BY <1>2, <1>3, <1>4, <1>5, <1>6
<1>8. ASSUME NEW k \in 1..(Len(ts) + 1)
      PROVE  (rs \o <<r>>)[k] = ResultPart(d, names, (ts \o <<m>>)[k])
  <2>1. CASE k = Len(ts) + 1
    BY <1>7, <2>1 DEF r
  <2>2. CASE k # Len(ts) + 1
    <3>1. k \in 1..Len(ts)
      BY <1>5, <2>2
    <3> QED BY <1>3, <1>4, <1>5, <3>1
  <2> QED BY <2>1, <2>2
<1>9. Len(rs \o <<r>>) = Len(ts) + 1 /\ Len(ts \o <<m>>) = Len(ts) + 1
  BY <1>2, <1>3, <1>4, <1>5
<1> QED BY <1>8, <1>9 DEF Matches, r

LEMMA ResultsTold ==
  ASSUME NEW d, NEW names, NEW ms, NEW pieces, Told(d, names, ms, pieces)
  PROVE  Matches(d, names, OfKind(FlattenSeq(pieces), "result"), Role(ms, "tool"))
<1>1. /\ Sequence(ms) /\ Sequence(pieces) /\ Len(pieces) = Len(ms)
      /\ \A i \in 1..Len(ms) : Gives(d, names, ms[i], pieces[i])
  BY DEF Told
<1>2. PICK U : pieces \in Seq(Seq(U))
  BY <1>1, ManyTogether DEF Gives
<1> DEFINE n == Len(ms)
           M == {ms[i] : i \in DOMAIN ms}
           R == {p \in U : p.kind = "result"}
           V == {m \in Range(ms) : m.role = "tool"}
           tools == Pieces(ms, V)
<1>3. n \in Nat /\ DOMAIN ms = 1..n /\ ms \in Seq(M)
  BY <1>1, SequenceFacts DEF Sequence
<1> HIDE DEF M
<1>4. /\ tools \in Seq(Seq(M)) /\ Len(tools) = n
      /\ \A i \in 1..n : tools[i] = IF ms[i] \in V THEN <<ms[i]>> ELSE <<>>
      /\ Kept(ms, V) = FlattenSeq(tools)
  BY <1>3, PiecesType
<1>5. \A i \in 1..n : ms[i] \in V <=> ms[i].role = "tool"
  BY <1>3 DEF Range
<1> HIDE DEF tools, V
<1>6. PICK g : FlattensTo(U, pieces, g)
  BY <1>2, FlattenFrom
<1>7. PICK h : FlattensTo(M, tools, h)
  BY <1>4, FlattenFrom
<1>8. /\ \A k \in 0..n : g[k] \in Seq(U)
      /\ g[0] = <<>> /\ \A k \in 1..n : g[k] = g[k - 1] \o pieces[k]
      /\ FlattenSeq(pieces) = g[n]
  BY <1>1, <1>6 DEF FlattensTo
<1>9. /\ \A k \in 0..n : h[k] \in Seq(M)
      /\ h[0] = <<>> /\ \A k \in 1..n : h[k] = h[k - 1] \o tools[k]
      /\ FlattenSeq(tools) = h[n]
  BY <1>4, <1>7 DEF FlattensTo
<1>a. \A s, t \in Seq(U) : Kept(s \o t, R) = Kept(s, R) \o Kept(t, R)
  <2> HIDE DEF R
  <2> QED BY KeptConcat
<1> DEFINE Meets(k) == Matches(d, names, Kept(g[k], R), h[k])
           T == {k \in Nat : k <= n => Meets(k)}
<1>10. 0 \in T
  <2>1. Kept(<<>>, R) = <<>>
    <3>1. <<>> \in Seq(U) /\ Range(<<>>) = {}
      BY EmptySeq, OneRange
    <3> QED BY <3>1, KeptNone
  <2>2. Meets(0)
    BY <1>8, <1>9, <2>1, EmptySeq DEF Matches
  <2> HIDE DEF Meets
  <2> QED BY <2>2
<1>11. ASSUME NEW k \in Nat, k \in T PROVE k + 1 \in T
  <2>1. CASE k + 1 <= n
    <3>1. k \in 0..n /\ k + 1 \in 1..n /\ (k + 1) - 1 = k /\ k <= n
      BY <1>3, <2>1
    <3>2. Meets(k)
      <4> HIDE DEF Meets
      <4> QED BY <1>11, <3>1
    <3>3. /\ g[k + 1] = g[k] \o pieces[k + 1] /\ g[k] \in Seq(U)
          /\ h[k + 1] = h[k] \o tools[k + 1] /\ h[k] \in Seq(M)
      BY <1>8, <1>9, <3>1
    <3>4. pieces[k + 1] \in Seq(U)
      BY <1>1, <1>2, <3>1, ElementOfSeq
    <3>5. Kept(g[k + 1], R) = Kept(g[k], R) \o Kept(pieces[k + 1], R)
      <4> HIDE DEF R
      <4> QED BY <1>a, <3>3, <3>4
    <3>6. Gives(d, names, ms[k + 1], pieces[k + 1])
      BY <1>1, <3>1
    <3>7. Sequence(Kept(g[k], R)) /\ Sequence(h[k]) /\ Kept(g[k], R) \in Seq(U)
      BY <3>3, KeptElements, SequenceOf
    <3>8. CASE ms[k + 1].role = "tool"
      <4> DEFINE r == ResultPart(d, names, ms[k + 1])
      <4>1. pieces[k + 1] = <<r>> /\ tools[k + 1] = <<ms[k + 1]>>
        BY <1>4, <1>5, <3>1, <3>6, <3>8 DEF Gives
      <4>2. r.kind = "result"
        BY DEF ResultPart, Part
      <4> HIDE DEF r
      <4>3. r \in R
        <5>1. <<r>>[1] = r /\ Len(<<r>>) = 1
          OBVIOUS
        <5>2. 1 \in 1..1
          OBVIOUS
        <5> QED BY <3>4, <4>1, <4>2, <5>1, <5>2, ElementOfSeq
      <4>4. Kept(<<r>>, R) = <<r>>
        <5>1. Range(<<r>>) = {r}
          BY OneRange
        <5> HIDE DEF R
        <5> QED BY <3>4, <4>1, <4>3, <5>1, KeptAll
      <4>5. Matches(d, names, Kept(g[k], R) \o <<r>>, h[k] \o <<ms[k + 1]>>)
        BY <3>2, <3>7, MatchOne DEF r
      <4>6. Meets(k + 1)
        BY <3>3, <3>5, <4>1, <4>4, <4>5
      <4> HIDE DEF Meets
      <4> QED BY <4>6
    <3>9. CASE ms[k + 1].role # "tool"
      <4>1. (\A x \in Range(pieces[k + 1]) : x.kind # "result") /\ tools[k + 1] = <<>>
        BY <1>4, <1>5, <3>1, <3>6, <3>9 DEF Gives
      <4>2. Kept(pieces[k + 1], R) = <<>>
        BY <3>4, <4>1, KeptNone
      <4>3. Kept(g[k], R) \o <<>> = Kept(g[k], R) /\ h[k] \o <<>> = h[k]
        BY <3>3, <3>7, ConcatEmptySeq
      <4>4. Meets(k + 1)
        BY <3>2, <3>3, <3>5, <4>1, <4>2, <4>3
      <4> HIDE DEF Meets
      <4> QED BY <4>4
    <3> QED BY <3>8, <3>9
  <2>2. CASE ~(k + 1 <= n)
    <3> HIDE DEF Meets
    <3> QED BY <2>2
  <2> QED BY <2>1, <2>2
<1>12. Meets(n)
  <2>1. Nat \subseteq T
    <3> HIDE DEF T
    <3> QED BY <1>10, <1>11, Induction
  <2>2. n \in T
    <3> HIDE DEF T
    <3> QED BY <1>3, <2>1
  <2>3. n <= n
    BY <1>3
  <2> HIDE DEF Meets
  <2> QED BY <2>2, <2>3
<1>13. OfKind(g[n], "result") = Kept(g[n], R)
  <2>1. g[n] \in Seq(U)
    BY <1>3, <1>8
  <2>2. \A x \in Range(g[n]) : x \in U
    BY <2>1, RangeOf, ElementOfSeq
  <2>3. \A x \in Range(g[n]) : x \in {p \in Range(g[n]) : p.kind = "result"} <=> x \in R
    BY <2>2
  <2> QED BY <2>3, KeptSame DEF OfKind
<1> QED BY <1>4, <1>8, <1>9, <1>12, <1>13 DEF Role, V

\* The calls a request tells of are those of its messages.
LEMMA CallsTold ==
  ASSUME NEW d \in ById, NEW names, NEW ms, NEW pieces, Told(d, names, ms, pieces)
  PROVE  LET cs == OfKind(FlattenSeq(pieces), "call")
         IN /\ Sequence(cs)
            /\ \A x \in Range(cs) : \E i \in 1..Len(ms) : IsCall(x, ms[i])
            /\ \A i \in 1..Len(ms) : \A j \in DOMAIN ms[i].calls : \E x \in Range(cs) :
                 x.id = ms[i].calls[j].id /\ x.name = ms[i].calls[j].name
<1>1. /\ Sequence(ms) /\ Sequence(pieces) /\ Len(pieces) = Len(ms)
      /\ \A i \in 1..Len(ms) : Gives(d, names, ms[i], pieces[i])
  BY DEF Told
<1>2. PICK U : pieces \in Seq(Seq(U))
  BY <1>1, ManyTogether DEF Gives
<1> DEFINE all == FlattenSeq(pieces)
           C == {p \in Range(all) : p.kind = "call"}
           cs == Kept(all, C)
<1>3. /\ all \in Seq(U)
      /\ \A x : x \in Range(all) <=> \E i \in 1..Len(pieces) : x \in Range(pieces[i])
  BY <1>2, FlattenElements
<1>4. /\ cs \in Seq(U)
      /\ \A x : x \in Range(cs) <=> x \in Range(all) /\ x \in C
  BY <1>3, KeptElements
<1>5. OfKind(all, "call") = cs
  BY DEF OfKind
<1> HIDE DEF cs, all
<1>6. Sequence(cs)
  BY <1>4, SequenceOf
<1>7. ASSUME NEW x \in Range(cs) PROVE \E i \in 1..Len(ms) : IsCall(x, ms[i])
  <2>1. PICK i \in 1..Len(ms) : x \in Range(pieces[i])
    BY <1>1, <1>3, <1>4, <1>7
  <2>2. x.kind = "call"
    BY <1>4, <1>7
  <2> QED BY <1>1, <2>1, <2>2 DEF Gives
<1>8. ASSUME NEW i \in 1..Len(ms), NEW j \in DOMAIN ms[i].calls
      PROVE  \E x \in Range(cs) : x.id = ms[i].calls[j].id /\ x.name = ms[i].calls[j].name
  <2>1. PICK x \in Range(pieces[i]) : x.kind = "call" /\ x.id = ms[i].calls[j].id /\ x.name = ms[i].calls[j].name
    BY <1>1, <1>8 DEF Gives
  <2>2. x \in Range(cs)
    BY <1>1, <1>3, <1>4, <2>1
  <2> QED BY <2>1, <2>2
<1> QED BY <1>5, <1>6, <1>7, <1>8 DEF all

PiecesFor(d, names, ms) == [i \in 1..Len(ms) |-> PartsFor(d, names, ms[i])]

LEMMA AllTold ==
  ASSUME NEW d \in ById \cup ByName, NEW names, NEW ms, Sequence(ms),
         \A i \in 1..Len(ms) : Spoken(ms[i])
  PROVE  Told(d, names, ms, PiecesFor(d, names, ms))
<1> DEFINE ps == PiecesFor(d, names, ms)
<1>1. Len(ms) \in Nat
  BY SequenceFacts
<1>2. ps = [i \in 1..Len(ms) |-> ps[i]] /\ \A i \in 1..Len(ms) : ps[i] = PartsFor(d, names, ms[i])
  BY DEF PiecesFor
<1> HIDE DEF ps
<1>3. Sequence(ps) /\ Len(ps) = Len(ms)
  BY <1>1, <1>2, FunctionIsSequence
<1>4. ASSUME NEW i \in 1..Len(ms) PROVE Gives(d, names, ms[i], ps[i])
  <2>1. Spoken(ms[i])
    OBVIOUS
  <2>2. Gives(d, names, ms[i], PartsFor(d, names, ms[i]))
    BY <2>1, PartsGiven
  <2> QED BY <1>2, <2>2
<1> QED BY <1>3, <1>4 DEF Told, ps

LEMMA OthersFacts ==
  ASSUME NEW ms, Conversed(ms), NEW rest, rest = Others(ms, "system")
  PROVE  /\ Sequence(rest) /\ Len(rest) = Len(ms) - 1
         /\ \A i \in 1..Len(rest) : i + 1 \in 1..Len(ms) /\ rest[i] = ms[i + 1] /\ Spoken(rest[i])
                                    /\ rest[i].role # "system"
         /\ Role(rest, "tool") = Role(ms, "tool")
<1> DEFINE U == {ms[i] : i \in DOMAIN ms}
           V == {m \in Range(ms) : m.role # "system"}
           W == {m \in U : m.role = "tool"}
           a == <<ms[1]>>
           t == Tail(ms)
<1>1. ms \in Seq(U) /\ Len(ms) \in Nat /\ Len(ms) >= 1 /\ DOMAIN ms = 1..Len(ms)
  BY SequenceFacts DEF Sequence, Conversed
<1>2. Range(ms) = U
  BY DEF Range
<1> HIDE DEF U
<1>3. ms # <<>>
  BY <1>1, EmptySeq
<1>4. /\ t \in Seq(U) /\ Len(t) = Len(ms) - 1
      /\ \A i \in 1..Len(t) : t[i] = ms[i + 1]
  BY <1>1, <1>3, HeadTailProperties
<1>5. ms[1] \in U
  BY <1>1, ElementOfSeq
<1>6. a \in Seq(U) /\ Len(a) = 1 /\ a[1] = ms[1] /\ Range(a) = {ms[1]}
  BY <1>5, Singleton, OneRange
<1> HIDE DEF a, t
<1>7. ms = a \o t
  <2>1. /\ a \o t \in Seq(U) /\ Len(a \o t) = Len(a) + Len(t)
        /\ Len(a) \in Nat /\ Len(t) \in Nat
        /\ \A i \in 1..Len(a) : (a \o t)[i] = a[i]
        /\ \A i \in 1..Len(t) : (a \o t)[Len(a) + i] = t[i]
    BY <1>4, <1>6, ConcatElements
  <2>2. Len(a \o t) = Len(ms)
    BY <1>1, <1>4, <1>6, <2>1
  <2>3. ASSUME NEW i \in 1..Len(ms) PROVE ms[i] = (a \o t)[i]
    <3>1. CASE i = 1
      <4>1. 1 \in 1..Len(a)
        BY <1>6
      <4> QED BY <1>6, <2>1, <3>1, <4>1
    <3>2. CASE i # 1
      <4>1. i - 1 \in 1..Len(t) /\ 1 + (i - 1) = i /\ (i - 1) + 1 = i
        BY <1>1, <1>4, <3>2
      <4>2. t[i - 1] = ms[i]
        BY <1>4, <4>1
      <4>3. (a \o t)[Len(a) + (i - 1)] = t[i - 1]
        BY <2>1, <4>1
      <4> QED BY <1>6, <4>1, <4>2, <4>3
    <3> QED BY <3>1, <3>2
  <2> QED BY <1>1, <2>1, <2>2, <2>3, SeqEqual
<1>8. ASSUME NEW i \in 1..Len(t)
      PROVE  i + 1 \in 1..Len(ms) /\ t[i] = ms[i + 1] /\ Spoken(t[i]) /\ t[i].role # "system"
             /\ t[i] \in Range(ms)
  <2>1. i + 1 \in 1..Len(ms) /\ i + 1 # 1 /\ t[i] = ms[i + 1]
    BY <1>1, <1>4
  <2> QED BY <1>1, <2>1 DEF Conversed, Range
<1>9. ms[1].role = "system"
  <2>1. 1 \in 1..Len(ms)
    BY <1>1
  <2> QED BY <2>1 DEF Conversed
<1>10. rest = Kept(ms, V)
  BY DEF Others
<1>11. \A x \in Range(t) : x \in V
  <2>1. \A x \in Range(t) : \E i \in 1..Len(t) : x = t[i]
    BY <1>4, RangeOf
  <2> QED BY <1>8, <2>1
<1>12. \A x \in Range(a) : x \notin V /\ x \notin W
  BY <1>6, <1>9
<1> HIDE DEF V
<1>13. Kept(a, V) = <<>> /\ Kept(t, V) = t
  BY <1>4, <1>6, <1>11, <1>12, KeptNone, KeptAll
<1>14. Kept(a \o t, V) = Kept(a, V) \o Kept(t, V)
  BY <1>4, <1>6, KeptConcat
<1>15. rest = t
  <2>1. <<>> \o t = t
    BY <1>4, ConcatEmptySeq
  <2> QED BY <1>7, <1>10, <1>13, <1>14, <2>1
<1>16. Role(ms, "tool") = Kept(ms, W)
  BY <1>2 DEF Role
<1>17. Role(t, "tool") = Kept(t, W)
  <2>1. \A x \in Range(t) : x \in U
    BY <1>4, RangeOf, ElementOfSeq
  <2>2. \A x \in Range(t) : x \in {m \in Range(t) : m.role = "tool"} <=> x \in W
    BY <2>1
  <2> QED BY <2>2, KeptSame DEF Role
<1> HIDE DEF W
<1>18. Kept(a \o t, W) = Kept(a, W) \o Kept(t, W)
  BY <1>4, <1>6, KeptConcat
<1>19. Kept(a, W) = <<>>
  BY <1>6, <1>12, KeptNone
<1>20. Role(rest, "tool") = Role(ms, "tool")
  <2>1. Kept(t, W) \in Seq(U)
    BY <1>4, KeptElements
  <2>2. <<>> \o Kept(t, W) = Kept(t, W)
    BY <2>1, ConcatEmptySeq
  <2> QED BY <1>7, <1>15, <1>16, <1>17, <1>18, <1>19, <2>2
<1>21. Sequence(t)
  BY <1>4, SequenceOf
<1> QED BY <1>4, <1>8, <1>15, <1>20, <1>21

LEMMA TurnFields == ASSUME NEW r, NEW ps PROVE Turn(r, ps).parts = ps /\ Turn(r, ps).role = r
BY DEF Turn

\* A turn for each message.
LEMMA TurnByTurn ==
  ASSUME NEW d \in ById \cup ByName, NEW names, NEW ms, Sequence(ms),
         NEW turns, DOMAIN turns = DOMAIN ms,
         \A i \in DOMAIN ms : turns[i].parts = PartsFor(d, names, ms[i])
  PROVE  AllParts(turns) = FlattenSeq(PiecesFor(d, names, ms))
<1>1. DOMAIN ms = 1..Len(ms)
  BY SequenceFacts
<1>2. [i \in DOMAIN turns |-> turns[i].parts] = PiecesFor(d, names, ms)
  BY <1>1 DEF PiecesFor
<1> QED BY <1>2 DEF AllParts

LEMMA OpenAITurns ==
  ASSUME NEW names, NEW ms, Sequence(ms)
  PROVE  AllParts(OpenAIRequest(ms).turns) = FlattenSeq(PiecesFor("openai", names, ms))
<1> DEFINE turns == OpenAIRequest(ms).turns
<1>1. turns = [i \in DOMAIN ms |-> Turn(ms[i].role,
          IF ms[i].role = "tool"
          THEN <<Part("result", ms[i].text, ms[i].answers, "")>>
          ELSE TextPart(ms[i]) \o CallParts(ms[i]))]
  BY DEF OpenAIRequest
<1> HIDE DEF turns
<1>2. DOMAIN turns = DOMAIN ms
  BY <1>1
<1>3. ASSUME NEW i \in DOMAIN ms PROVE turns[i].parts = PartsFor("openai", names, ms[i])
  <2> DEFINE ps == IF ms[i].role = "tool"
                   THEN <<Part("result", ms[i].text, ms[i].answers, "")>>
                   ELSE TextPart(ms[i]) \o CallParts(ms[i])
  <2>1. turns[i] = Turn(ms[i].role, ps)
    BY <1>1
  <2>2. PartsFor("openai", names, ms[i]) = ps
    BY DEF PartsFor
  <2> HIDE DEF ps
  <2> QED BY <2>1, <2>2, TurnFields
<1>4. "openai" \in ById \cup ByName
  BY DEF ById
<1> QED BY <1>2, <1>3, <1>4, TurnByTurn DEF turns

LEMMA GeminiTurns ==
  ASSUME NEW d \in ByName, NEW ms
  PROVE  LET rest == Others(ms, "system")
         IN Sequence(rest) =>
              AllParts(Request(d, ms).turns) = FlattenSeq(PiecesFor(d, CallNames(ms), rest))
<1> DEFINE rest == Others(ms, "system")
           turns == Request(d, ms).turns
<1>1. turns = [i \in DOMAIN rest |-> GeminiTurn(rest[i], CallNames(ms))]
  BY DEF Request, GeminiRequest, CodeAssistRequest, ByName
<1> HIDE DEF turns, rest
<1>2. DOMAIN turns = DOMAIN rest
  BY <1>1
<1>3. ASSUME NEW i \in DOMAIN rest PROVE turns[i].parts = PartsFor(d, CallNames(ms), rest[i])
  BY <1>1 DEF PartsFor, ByName
<1>4. d \in ById \cup ByName
  OBVIOUS
<1>5. Sequence(rest) => AllParts(turns) = FlattenSeq(PiecesFor(d, CallNames(ms), rest))
  BY <1>2, <1>3, <1>4, TurnByTurn
<1> QED BY <1>5 DEF turns, rest

LEMMA ResponsesTurns ==
  ASSUME NEW names, NEW ms
  PROVE  LET rest == Others(ms, "system")
         IN Sequence(rest) =>
              AllParts(ResponsesRequest(ms).turns) = FlattenSeq(PiecesFor("chatgpt", names, rest))
<1> DEFINE rest == Others(ms, "system")
           turns == ResponsesRequest(ms).turns
<1>1. turns = [i \in DOMAIN rest |-> Turn(rest[i].role, ResponsesItems(rest[i]))]
  BY DEF ResponsesRequest
<1> HIDE DEF turns, rest
<1>2. DOMAIN turns = DOMAIN rest
  BY <1>1
<1>3. ASSUME NEW i \in DOMAIN rest PROVE turns[i].parts = PartsFor("chatgpt", names, rest[i])
  <2>1. turns[i] = Turn(rest[i].role, ResponsesItems(rest[i]))
    BY <1>1
  <2>2. PartsFor("chatgpt", names, rest[i]) = ResponsesItems(rest[i])
    BY DEF PartsFor
  <2> QED BY <2>1, <2>2, TurnFields
<1>4. "chatgpt" \in ById \cup ByName
  BY DEF ById
<1>5. Sequence(rest) => AllParts(turns) = FlattenSeq(PiecesFor("chatgpt", names, rest))
  BY <1>2, <1>3, <1>4, TurnByTurn
<1> QED BY <1>5 DEF turns, rest

\* Anthropic's turns hold several results, but the parts are the same.
ATurn(U) == [role : {"user", "assistant"}, parts : Seq(U)]

LEMMA FlattenOne ==
  ASSUME NEW U, NEW x \in Seq(U)
  PROVE  <<x>> \in Seq(Seq(U)) /\ FlattenSeq(<<x>>) = x
<1>1. <<x>> \in Seq(Seq(U)) /\ Len(<<x>>) = 1 /\ <<x>>[1] = x
  BY Singleton
<1> DEFINE s == <<x>>
<1>2. s \in Seq(Seq(U)) /\ Len(s) = 1 /\ s[1] = x
  BY <1>1
<1> HIDE DEF s
<1>3. PICK g : FlattensTo(U, s, g)
  BY <1>2, FlattenFrom
<1>4. g[0] = <<>> /\ FlattenSeq(s) = g[1]
  BY <1>2, <1>3 DEF FlattensTo
<1>5. g[1] = g[0] \o s[1]
  <2>1. 1 \in 1..1 /\ 1 - 1 = 0
    OBVIOUS
  <2>2. \A k \in 1..1 : g[k] = g[k - 1] \o s[k]
    BY <1>2, <1>3 DEF FlattensTo
  <2> QED BY <2>1, <2>2
<1>6. <<>> \o x = x
  BY ConcatEmptySeq
<1>7. FlattenSeq(s) = x
  BY <1>2, <1>4, <1>5, <1>6
<1> QED BY <1>1, <1>7 DEF s

LEMMA PartsOfTurns ==
  ASSUME NEW U, NEW turns \in Seq(ATurn(U))
  PROVE  /\ [i \in DOMAIN turns |-> turns[i].parts] \in Seq(Seq(U))
         /\ Len([i \in DOMAIN turns |-> turns[i].parts]) = Len(turns)
         /\ AllParts(turns) \in Seq(U)
<1> DEFINE ps == [i \in DOMAIN turns |-> turns[i].parts]
<1>1. Len(turns) \in Nat /\ DOMAIN turns = 1..Len(turns) /\ \A i \in 1..Len(turns) : turns[i] \in ATurn(U)
  BY LenProperties, ElementOfSeq
<1>2. \A i \in 1..Len(turns) : turns[i].parts \in Seq(U)
  BY <1>1 DEF ATurn
<1>3. ps \in [1..Len(turns) -> Seq(U)]
  BY <1>1, <1>2
<1>4. AllParts(turns) = FlattenSeq(ps)
  BY DEF AllParts
<1> HIDE DEF ps
<1>5. ps \in Seq(Seq(U)) /\ Len(ps) = Len(turns)
  BY <1>1, <1>3, FunctionIsSeq
<1>6. FlattenSeq(ps) \in Seq(U)
  BY <1>5, FlattenElements
<1> QED BY <1>4, <1>5, <1>6 DEF ps

LEMMA OneMoreTurn ==
  ASSUME NEW U, NEW turns \in Seq(ATurn(U)), NEW t \in ATurn(U)
  PROVE  /\ turns \o <<t>> \in Seq(ATurn(U)) /\ t.parts \in Seq(U)
         /\ AllParts(turns \o <<t>>) = AllParts(turns) \o t.parts
<1> DEFINE all == turns \o <<t>>
           ps == [i \in DOMAIN turns |-> turns[i].parts]
           qs == [i \in DOMAIN all |-> all[i].parts]
           n == Len(turns)
<1>1. t.parts \in Seq(U)
  BY DEF ATurn
<1>2. <<t>> \in Seq(ATurn(U)) /\ Len(<<t>>) = 1 /\ <<t>>[1] = t
  BY Singleton
<1>3. /\ all \in Seq(ATurn(U)) /\ Len(all) = Len(turns) + Len(<<t>>)
      /\ Len(turns) \in Nat /\ Len(<<t>>) \in Nat
      /\ \A i \in 1..Len(turns) : all[i] = turns[i]
      /\ \A i \in 1..Len(<<t>>) : all[Len(turns) + i] = <<t>>[i]
  BY <1>2, ConcatElements
<1>4. all \in Seq(ATurn(U)) /\ Len(all) = n + 1 /\ n \in Nat /\ all[n + 1] = t
  <2>1. 1 \in 1..Len(<<t>>)
    BY <1>2
  <2> QED BY <1>2, <1>3, <2>1
<1> HIDE DEF all
<1>5. DOMAIN turns = 1..n /\ DOMAIN all = 1..(n + 1)
  BY <1>4, LenProperties
<1>6. ps \in Seq(Seq(U)) /\ Len(ps) = n /\ AllParts(turns) = FlattenSeq(ps)
  BY PartsOfTurns DEF AllParts
<1>7. qs \in Seq(Seq(U)) /\ Len(qs) = n + 1 /\ AllParts(all) = FlattenSeq(qs)
  BY <1>4, PartsOfTurns DEF AllParts
<1>8. (\A i \in 1..n : ps[i] = turns[i].parts) /\ \A i \in 1..(n + 1) : qs[i] = all[i].parts
  BY <1>5
<1> HIDE DEF ps, qs
<1>9. <<t.parts>> \in Seq(Seq(U)) /\ FlattenSeq(<<t.parts>>) = t.parts
  BY <1>1, FlattenOne
<1>10. Len(<<t.parts>>) = 1 /\ <<t.parts>>[1] = t.parts
  OBVIOUS
<1>11. /\ ps \o <<t.parts>> \in Seq(Seq(U)) /\ Len(ps \o <<t.parts>>) = Len(ps) + Len(<<t.parts>>)
       /\ Len(ps) \in Nat /\ Len(<<t.parts>>) \in Nat
       /\ \A i \in 1..Len(ps) : (ps \o <<t.parts>>)[i] = ps[i]
       /\ \A i \in 1..Len(<<t.parts>>) : (ps \o <<t.parts>>)[Len(ps) + i] = <<t.parts>>[i]
  BY <1>6, <1>9, ConcatElements
<1>12. ASSUME NEW i \in 1..(n + 1) PROVE qs[i] = (ps \o <<t.parts>>)[i]
  <2>1. CASE i = n + 1
    <3>1. 1 \in 1..Len(<<t.parts>>)
      BY <1>10
    <3>2. (ps \o <<t.parts>>)[n + 1] = t.parts
      BY <1>6, <1>10, <1>11, <3>1
    <3> QED BY <1>4, <1>8, <2>1, <3>2
  <2>2. CASE i # n + 1
    <3>1. i \in 1..n
      BY <1>4, <2>2
    <3>2. all[i] = turns[i]
      BY <1>3, <3>1
    <3> QED BY <1>6, <1>8, <1>11, <3>1, <3>2
  <2> QED BY <2>1, <2>2
<1>13. qs = ps \o <<t.parts>>
  <2>1. Len(qs) = Len(ps \o <<t.parts>>)
    BY <1>6, <1>7, <1>10, <1>11
  <2> QED BY <1>7, <1>11, <1>12, <2>1, SeqEqual
<1>14. FlattenSeq(ps \o <<t.parts>>) = FlattenSeq(ps) \o FlattenSeq(<<t.parts>>)
  BY <1>6, <1>9, FlattenConcat
<1> QED BY <1>1, <1>4, <1>6, <1>7, <1>9, <1>13, <1>14 DEF all

LEMMA AnthropicStep ==
  ASSUME NEW U, NEW turns \in Seq(ATurn(U)), NEW names, NEW m, Spoken(m), m.role # "system",
         PartsFor("anthropic", names, m) \in Seq(U)
  PROVE  /\ AnthropicTurn(turns, m) \in Seq(ATurn(U))
         /\ AllParts(AnthropicTurn(turns, m)) = AllParts(turns) \o PartsFor("anthropic", names, m)
<1> DEFINE ps == PartsFor("anthropic", names, m)
           r == Part("result", m.text, m.answers, "")
           n == Len(turns)
<1>1. \A role \in {"user", "assistant"}, qs \in Seq(U) : Turn(role, qs) \in ATurn(U)
  BY DEF Turn, ATurn
<1>2. ASSUME NEW role \in {"user", "assistant"}, AnthropicTurn(turns, m) = Append(turns, Turn(role, ps))
      PROVE  /\ AnthropicTurn(turns, m) \in Seq(ATurn(U))
             /\ AllParts(AnthropicTurn(turns, m)) = AllParts(turns) \o ps
  <2> DEFINE t == Turn(role, ps)
  <2>1. t \in ATurn(U) /\ t.parts = ps
    BY <1>1, TurnFields
  <2> HIDE DEF t, ps
  <2>2. Append(turns, t) = turns \o <<t>>
    BY <2>1, AppendIsConcat
  <2>3. /\ turns \o <<t>> \in Seq(ATurn(U)) /\ t.parts \in Seq(U)
        /\ AllParts(turns \o <<t>>) = AllParts(turns) \o t.parts
    BY <2>1, OneMoreTurn
  <2> QED BY <1>2, <2>1, <2>2, <2>3 DEF t
<1>3. CASE m.role = "assistant"
  <2>1. AnthropicTurn(turns, m) = Append(turns, Turn("assistant", ps))
    BY <1>3 DEF AnthropicTurn, PartsFor
  <2> HIDE DEF ps
  <2> QED BY <1>2, <2>1 DEF ps
<1>4. CASE m.role = "user"
  <2>1. AnthropicTurn(turns, m) = Append(turns, Turn("user", ps))
    BY <1>4 DEF AnthropicTurn, PartsFor
  <2> HIDE DEF ps
  <2> QED BY <1>2, <2>1 DEF ps
<1>5. CASE m.role = "tool"
  <2>0. ps = <<r>>
    BY <1>5 DEF PartsFor
  <2> DEFINE merges == /\ turns # <<>> /\ Last(turns).role = "user"
                       /\ Head(Last(turns).parts).kind = "result"
  <2>1. CASE ~merges
    <3>1. AnthropicTurn(turns, m) = Append(turns, Turn("user", ps))
      BY <1>5, <2>0, <2>1 DEF AnthropicTurn
    <3> HIDE DEF ps
    <3> QED BY <1>2, <3>1 DEF ps
  <2>2. CASE merges
    <3> DEFINE f == Front(turns)
               l == Last(turns)
               t == Turn("user", Append(l.parts, r))
    <3>1. AnthropicTurn(turns, m) = Append(f, t)
      BY <1>5, <2>2 DEF AnthropicTurn
    <3>2. n \in Nat /\ n # 0
      BY <2>2, LenProperties, EmptySeq
    <3>3. l \in ATurn(U)
      <4>1. n \in 1..n
        BY <3>2
      <4> QED BY <4>1, ElementOfSeq DEF Last
    <3>4. f \in Seq(ATurn(U))
      <4>1. \A i \in 1..(n - 1) : i \in 1..n
        BY <3>2
      <4>2. \A i \in 1..(n - 1) : turns[i] \in ATurn(U)
        BY <4>1, ElementOfSeq
      <4>3. n - 1 \in Int /\ 1 \in Int
        BY <3>2
      <4> QED BY <4>2, <4>3, SubSeqProperties DEF Front
    <3>5. turns = f \o <<l>>
      <4>1. SubSeq(turns, 1, n) = turns
        BY SubSeqFull
      <4>2. SubSeq(turns, 1, n) = SubSeq(turns, 1, n - 1) \o <<turns[n]>>
        <5>1. 1 \in Int /\ n \in Int /\ 1 <= n
          BY <3>2
        <5>2. \A i \in 1..n : turns[i] \in ATurn(U)
          BY ElementOfSeq
        <5> QED BY <5>1, <5>2, SubSeqRecursiveSecond
      <4> QED BY <4>1, <4>2 DEF Front, Last
    <3>6. r \in U
      <4>1. <<r>>[1] = r /\ Len(<<r>>) = 1 /\ 1 \in 1..1
        OBVIOUS
      <4> HIDE DEF r, ps
      <4>2. <<r>> \in Seq(U)
        BY <2>0 DEF ps
      <4> QED BY <4>1, <4>2, ElementOfSeq
    <3> HIDE DEF f, l, r
    <3>7. l.parts \in Seq(U)
      BY <3>3 DEF ATurn
    <3>8. Append(l.parts, r) = l.parts \o <<r>> /\ Append(l.parts, r) \in Seq(U)
      BY <3>6, <3>7, AppendIsConcat, AppendProperties
    <3>9. t \in ATurn(U) /\ t.parts = l.parts \o <<r>>
      BY <1>1, <3>8, TurnFields
    <3> HIDE DEF t
    <3>10. Append(f, t) = f \o <<t>>
      BY <3>4, <3>9, AppendIsConcat
    <3>11. /\ f \o <<t>> \in Seq(ATurn(U)) /\ t.parts \in Seq(U)
           /\ AllParts(f \o <<t>>) = AllParts(f) \o t.parts
      BY <3>4, <3>9, OneMoreTurn
    <3>12. /\ f \o <<l>> \in Seq(ATurn(U)) /\ l.parts \in Seq(U)
           /\ AllParts(f \o <<l>>) = AllParts(f) \o l.parts
      BY <3>3, <3>4, OneMoreTurn
    <3>13. AllParts(f) \in Seq(U) /\ <<r>> \in Seq(U)
      BY <3>4, <3>6, PartsOfTurns, Singleton
    <3>14. (AllParts(f) \o l.parts) \o <<r>> = AllParts(f) \o (l.parts \o <<r>>)
      <4>1. \A x, y, z \in Seq(U) : (x \o y) \o z = x \o (y \o z)
        BY ConcatAssociative
      <4> QED BY <3>7, <3>13, <4>1
    <3> QED BY <2>0, <3>1, <3>5, <3>9, <3>10, <3>11, <3>12, <3>14 DEF ps
  <2> QED BY <2>1, <2>2
<1> QED BY <1>3, <1>4, <1>5 DEF Spoken

LEMMA AnthropicTurns ==
  ASSUME NEW names, NEW ms, Sequence(ms),
         \A i \in 1..Len(ms) : Spoken(ms[i]) /\ ms[i].role # "system"
  PROVE  AllParts(FoldLeft(AnthropicTurn, <<>>, ms)) = FlattenSeq(PiecesFor("anthropic", names, ms))
<1> DEFINE n == Len(ms)
           pieces == PiecesFor("anthropic", names, ms)
<1>1. n \in Nat /\ DOMAIN ms = 1..n /\ ms \in Seq({ms[i] : i \in DOMAIN ms})
  BY SequenceFacts DEF Sequence
<1>2. Told("anthropic", names, ms, pieces)
  <2>1. "anthropic" \in ById \cup ByName
    BY DEF ById
  <2> QED BY <2>1, AllTold
<1>3. Sequence(pieces) /\ Len(pieces) = n /\ \A i \in 1..n : Sequence(pieces[i])
  BY <1>2 DEF Told, Gives
<1>4. \A i \in 1..n : pieces[i] = PartsFor("anthropic", names, ms[i])
  BY DEF PiecesFor
<1> HIDE DEF pieces
<1>5. PICK U : pieces \in Seq(Seq(U))
  BY <1>3, ManyTogether
<1>6. \A i \in 1..n : pieces[i] \in Seq(U)
  BY <1>3, <1>5, ElementOfSeq
<1>7. PICK g : Folds("turns", <<>>, ms, g) /\ FoldLeft(AnthropicTurn, <<>>, ms) = g[n]
  BY <1>1, FoldOfTurns
<1>8. g[0] = <<>> /\ \A k \in 1..n : g[k] = AnthropicTurn(g[k - 1], ms[k])
  BY <1>7 DEF Folds, Takes
<1>9. PICK h : FlattensTo(U, pieces, h)
  BY <1>5, FlattenFrom
<1>10. /\ h[0] = <<>> /\ \A k \in 1..n : h[k] = h[k - 1] \o pieces[k]
       /\ FlattenSeq(pieces) = h[n]
  BY <1>3, <1>9 DEF FlattensTo
<1>11. \A turns \in Seq(ATurn(U)) : \A m :
         Spoken(m) /\ m.role # "system" /\ PartsFor("anthropic", names, m) \in Seq(U)
         => /\ AnthropicTurn(turns, m) \in Seq(ATurn(U))
            /\ AllParts(AnthropicTurn(turns, m)) =
                 AllParts(turns) \o PartsFor("anthropic", names, m)
  BY AnthropicStep
<1> DEFINE Meets(k) == g[k] \in Seq(ATurn(U)) /\ AllParts(g[k]) = h[k]
           T == {k \in Nat : k <= n => Meets(k)}
<1>12. 0 \in T
  <2>1. <<>> \in Seq(ATurn(U))
    BY EmptySeq
  <2>2. AllParts(<<>>) = <<>>
    <3>1. [i \in DOMAIN <<>> |-> <<>>[i].parts] = <<>>
      OBVIOUS
    <3>2. FlattenSeq(<<>>) = <<>>
      BY EmptySeq DEF FlattenSeq
    <3> QED BY <3>1, <3>2 DEF AllParts
  <2>3. Meets(0)
    BY <1>8, <1>10, <2>1, <2>2
  <2> HIDE DEF Meets
  <2> QED BY <2>3
<1>13. ASSUME NEW k \in Nat, k \in T PROVE k + 1 \in T
  <2>1. CASE k + 1 <= n
    <3>1. k + 1 \in 1..n /\ (k + 1) - 1 = k /\ k <= n
      BY <1>1, <2>1
    <3>2. Meets(k)
      <4> HIDE DEF Meets
      <4> QED BY <1>13, <3>1
    <3>3. g[k + 1] = AnthropicTurn(g[k], ms[k + 1]) /\ h[k + 1] = h[k] \o pieces[k + 1]
      BY <1>8, <1>10, <3>1
    <3>4. /\ Spoken(ms[k + 1]) /\ ms[k + 1].role # "system"
          /\ PartsFor("anthropic", names, ms[k + 1]) \in Seq(U)
          /\ pieces[k + 1] = PartsFor("anthropic", names, ms[k + 1])
      BY <1>4, <1>6, <3>1
    <3>5. /\ AnthropicTurn(g[k], ms[k + 1]) \in Seq(ATurn(U))
          /\ AllParts(AnthropicTurn(g[k], ms[k + 1])) =
               AllParts(g[k]) \o PartsFor("anthropic", names, ms[k + 1])
      BY <3>2, <3>4, <1>11
    <3>6. Meets(k + 1)
      BY <3>2, <3>3, <3>4, <3>5
    <3> HIDE DEF Meets
    <3> QED BY <3>6
  <2>2. CASE ~(k + 1 <= n)
    <3> HIDE DEF Meets
    <3> QED BY <2>2
  <2> QED BY <2>1, <2>2
<1>14. Meets(n)
  <2>1. Nat \subseteq T
    <3> HIDE DEF T
    <3> QED BY <1>12, <1>13, Induction
  <2>2. n \in T
    <3> HIDE DEF T
    <3> QED BY <1>1, <2>1
  <2>3. n <= n
    BY <1>1
  <2> HIDE DEF Meets
  <2> QED BY <2>2, <2>3
<1> QED BY <1>7, <1>10, <1>14 DEF pieces

----------------------------------------------------------------------------
(* Any dialect's request *)

\* The function that a call of the conversation with this id is of.
Made(ms, id, name) ==
  \E i \in 1..Len(ms) : \E j \in DOMAIN ms[i].calls :
    ms[i].calls[j].id = id /\ ms[i].calls[j].name = name

LEMMA RequestTurns ==
  ASSUME NEW d \in ById \cup ByName, NEW ms, Conversed(ms)
  PROVE  \E ts : /\ AllParts(Request(d, ms).turns) = FlattenSeq(PiecesFor(d, CallNames(ms), ts))
                 /\ Sequence(ts) /\ \A i \in 1..Len(ts) : Spoken(ts[i])
                 /\ Role(ts, "tool") = Role(ms, "tool")
                 /\ \A id, name : Made(ts, id, name) <=> Made(ms, id, name)
<1> DEFINE rest == Others(ms, "system")
           names == CallNames(ms)
<1>1. Sequence(ms) /\ Len(ms) \in Nat /\ \A i \in 1..Len(ms) : Spoken(ms[i])
  BY SequenceFacts DEF Conversed
<1>2. /\ Sequence(rest) /\ Len(rest) = Len(ms) - 1
      /\ \A i \in 1..Len(rest) : i + 1 \in 1..Len(ms) /\ rest[i] = ms[i + 1] /\ Spoken(rest[i])
                                 /\ rest[i].role # "system"
      /\ Role(rest, "tool") = Role(ms, "tool")
  BY OthersFacts
<1>3. d = "openai" => AllParts(Request(d, ms).turns) = FlattenSeq(PiecesFor(d, names, ms))
  <2> HIDE DEF names
  <2> QED BY <1>1, OpenAITurns DEF Request
<1>4. d = "chatgpt" => AllParts(Request(d, ms).turns) = FlattenSeq(PiecesFor(d, names, rest))
  <2>1. \A ns : AllParts(ResponsesRequest(ms).turns) = FlattenSeq(PiecesFor("chatgpt", ns, rest))
    BY <1>2, ResponsesTurns
  <2> HIDE DEF names, rest
  <2> QED BY <2>1 DEF Request
<1>5. d \in ByName => AllParts(Request(d, ms).turns) = FlattenSeq(PiecesFor(d, names, rest))
  BY <1>2, GeminiTurns
<1>6. d = "anthropic" => AllParts(Request(d, ms).turns) = FlattenSeq(PiecesFor(d, names, rest))
  <2>1. AnthropicRequest(ms).turns = FoldLeft(AnthropicTurn, <<>>, rest)
    BY DEF AnthropicRequest
  <2> HIDE DEF names, rest
  <2>2. AllParts(FoldLeft(AnthropicTurn, <<>>, rest)) = FlattenSeq(PiecesFor("anthropic", names, rest))
    BY <1>2, AnthropicTurns
  <2> QED BY <2>1, <2>2 DEF Request
<1>7. ASSUME NEW id, NEW name
      PROVE  Made(rest, id, name) <=> Made(ms, id, name)
  <2> HIDE DEF rest
  <2>1. ASSUME Made(rest, id, name) PROVE Made(ms, id, name)
    BY <1>2, <2>1 DEF Made
  <2>2. ASSUME Made(ms, id, name) PROVE Made(rest, id, name)
    <3>1. PICK i \in 1..Len(ms) : \E j \in DOMAIN ms[i].calls :
                 ms[i].calls[j].id = id /\ ms[i].calls[j].name = name
      BY <2>2 DEF Made
    <3>2. ms[i].calls # <<>>
      <4>1. DOMAIN ms[i].calls # {}
        BY <3>1
      <4> QED BY <4>1
    <3>3. i # 1
      <4>1. ms[i].role = "assistant" /\ (ms[i].role = "system" <=> i = 1)
        BY <1>1, <3>2 DEF Spoken, Conversed
      <4> QED BY <4>1
    <3>4. i - 1 \in 1..Len(rest) /\ (i - 1) + 1 = i
      BY <1>1, <1>2, <3>3
    <3>5. rest[i - 1] = ms[i]
      BY <1>2, <3>4
    <3> QED BY <3>1, <3>4, <3>5 DEF Made
  <2> QED BY <2>1, <2>2
<1>8. CASE d = "openai"
  BY <1>1, <1>3, <1>8
<1>9. CASE d # "openai"
  <2>1. AllParts(Request(d, ms).turns) = FlattenSeq(PiecesFor(d, names, rest))
    BY <1>4, <1>5, <1>6, <1>9 DEF ById
  <2> HIDE DEF rest, names
  <2> QED BY <1>2, <1>7, <2>1 DEF names
<1> QED BY <1>8, <1>9

LEMMA RequestTold ==
  ASSUME NEW d \in ById \cup ByName, NEW ms, Conversed(ms)
  PROVE  LET results == Parts(Request(d, ms), "result")
             calls   == Parts(Request(d, ms), "call")
         IN /\ Matches(d, CallNames(ms), results, Role(ms, "tool"))
            /\ d \in ById =>
                 /\ Sequence(calls)
                 /\ \A x \in Range(calls) : Made(ms, x.id, x.name)
                 /\ \A id, name : Made(ms, id, name) =>
                      \E x \in Range(calls) : x.id = id /\ x.name = name
<1> DEFINE names == CallNames(ms)
           all == AllParts(Request(d, ms).turns)
<1>1. PICK ts : /\ all = FlattenSeq(PiecesFor(d, names, ts))
                /\ Sequence(ts) /\ \A i \in 1..Len(ts) : Spoken(ts[i])
                /\ Role(ts, "tool") = Role(ms, "tool")
                /\ \A id, name : Made(ts, id, name) <=> Made(ms, id, name)
  BY RequestTurns
<1>2. \A kind : Parts(Request(d, ms), kind) = OfKind(all, kind)
  BY DEF Parts, OfKind
<1> HIDE DEF all, names
<1> DEFINE pieces == PiecesFor(d, names, ts)
<1>3. Told(d, names, ts, pieces)
  BY <1>1, AllTold
<1> HIDE DEF pieces
<1>4. all = FlattenSeq(pieces)
  BY <1>1 DEF pieces
<1>5. Matches(d, names, OfKind(all, "result"), Role(ms, "tool"))
  BY <1>1, <1>3, <1>4, ResultsTold
<1>6. ASSUME d \in ById
      PROVE  LET cs == OfKind(all, "call")
             IN /\ Sequence(cs)
                /\ \A x \in Range(cs) : \E i \in 1..Len(ts) : IsCall(x, ts[i])
                /\ \A i \in 1..Len(ts) : \A j \in DOMAIN ts[i].calls : \E x \in Range(cs) :
                     x.id = ts[i].calls[j].id /\ x.name = ts[i].calls[j].name
  BY <1>3, <1>4, <1>6, CallsTold
<1> DEFINE cs == OfKind(all, "call")
<1>7. ASSUME d \in ById
      PROVE  /\ Sequence(cs) /\ \A x \in Range(cs) : Made(ts, x.id, x.name)
             /\ \A id, name : Made(ts, id, name) => \E x \in Range(cs) : x.id = id /\ x.name = name
  <2> HIDE DEF cs
  <2>1. /\ Sequence(cs)
        /\ \A x \in Range(cs) : \E i \in 1..Len(ts) : IsCall(x, ts[i])
        /\ \A i \in 1..Len(ts) : \A j \in DOMAIN ts[i].calls : \E x \in Range(cs) :
             x.id = ts[i].calls[j].id /\ x.name = ts[i].calls[j].name
    BY <1>6, <1>7 DEF cs
  <2> QED BY <2>1 DEF Made, IsCall
<1> HIDE DEF cs
<1> QED BY <1>1, <1>2, <1>5, <1>7 DEF cs, names

\* Calls with different ids are told apart by them.
LEMMA OneCallEach ==
  ASSUME Conversed(messages), IdsDiffer
  PROVE  \A id, m, n : Made(messages, id, m) /\ Made(messages, id, n) => m = n
<1> DEFINE cs == [i \in DOMAIN messages |-> messages[i].calls]
<1>1. /\ Sequence(messages) /\ Len(messages) \in Nat /\ DOMAIN messages = 1..Len(messages)
      /\ \A i \in 1..Len(messages) : Sequence(messages[i].calls)
  BY SequenceFacts DEF Conversed, Spoken
<1>2. cs = [i \in 1..Len(messages) |-> cs[i]] /\ \A i \in 1..Len(messages) : cs[i] = messages[i].calls
  BY <1>1
<1>3. HistoryCalls = FlattenSeq(cs)
  BY DEF HistoryCalls
<1> HIDE DEF cs
<1>4. Sequence(cs) /\ Len(cs) = Len(messages) /\ \A i \in 1..Len(cs) : Sequence(cs[i])
  BY <1>1, <1>2, FunctionIsSequence
<1>5. PICK U : cs \in Seq(Seq(U))
  BY <1>4, ManyTogether
<1>6. \A x : x \in Range(HistoryCalls) <=> \E i \in 1..Len(cs) : x \in Range(cs[i])
  BY <1>3, <1>5, FlattenElements
<1>7. ASSUME NEW id, NEW m, Made(messages, id, m)
      PROVE  \E p \in DOMAIN HistoryCalls : HistoryCalls[p].id = id /\ HistoryCalls[p].name = m
  <2>1. PICK i \in 1..Len(messages) : \E j \in DOMAIN messages[i].calls :
               messages[i].calls[j].id = id /\ messages[i].calls[j].name = m
    BY <1>7 DEF Made
  <2>2. PICK j \in DOMAIN messages[i].calls :
               messages[i].calls[j].id = id /\ messages[i].calls[j].name = m
    BY <2>1
  <2>3. messages[i].calls[j] \in Range(cs[i]) /\ i \in 1..Len(cs)
    BY <1>2, <1>4, <2>2 DEF Range
  <2>4. messages[i].calls[j] \in Range(HistoryCalls)
    BY <1>6, <2>3
  <2> QED BY <2>4, <2>2 DEF Range
<1>8. ASSUME NEW id, NEW m, NEW n, Made(messages, id, m), Made(messages, id, n)
      PROVE  m = n
  <2>1. PICK p \in DOMAIN HistoryCalls : HistoryCalls[p].id = id /\ HistoryCalls[p].name = m
    BY <1>7, <1>8
  <2>2. PICK q \in DOMAIN HistoryCalls : HistoryCalls[q].id = id /\ HistoryCalls[q].name = n
    BY <1>7, <1>8
  <2>3. p = q
    BY <2>1, <2>2 DEF IdsDiffer
  <2> QED BY <2>1, <2>2, <2>3
<1> QED BY <1>8

\* Each result of the conversation is of a function it called, by that call's id.
Conversing ==
  /\ Conversed(messages)
  /\ LET tools == Role(messages, "tool")
     IN /\ Len(tools) = Len(meant)
        /\ \A k \in 1..Len(meant) : Made(messages, tools[k].answers, meant[k])

LEMMA LastOfId ==
  ASSUME NEW cs, Sequence(cs), NEW id, \E x \in Range(cs) : x.id = id
  PROVE  /\ OfId(cs, id) # <<>>
         /\ Last(OfId(cs, id)) \in Range(cs) /\ Last(OfId(cs, id)).id = id
<1> DEFINE U == {cs[i] : i \in DOMAIN cs}
           S == {c \in Range(cs) : c.id = id}
           t == Kept(cs, S)
<1>1. cs \in Seq(U)
  BY DEF Sequence
<1> HIDE DEF U
<1>2. t \in Seq(U) /\ \A x : x \in Range(t) <=> x \in Range(cs) /\ x \in S
  BY <1>1, KeptElements
<1>3. OfId(cs, id) = t
  BY DEF OfId
<1> HIDE DEF t
<1>4. Len(t) \in Nat /\ DOMAIN t = 1..Len(t)
  BY <1>2, LenProperties
<1>5. Range(t) # {}
  BY <1>2
<1>6. Len(t) \in DOMAIN t
  <2>1. DOMAIN t # {}
    BY <1>5 DEF Range
  <2> QED BY <1>4, <2>1
<1>7. t # <<>>
  <2>1. DOMAIN t # {}
    BY <1>6
  <2> QED BY <2>1
<1>8. Last(t) \in Range(t)
  BY <1>6 DEF Last, Range
<1> QED BY <1>2, <1>3, <1>7, <1>8

LEMMA NamesKnown ==
  ASSUME Conversed(messages), IdsDiffer, NEW id, NEW name, Made(messages, id, name)
  PROVE  id \in DOMAIN CallNames(messages) /\ CallNames(messages)[id] = name
<1> DEFINE cs == [i \in DOMAIN messages |-> messages[i].calls]
           U == {messages[i] : i \in DOMAIN messages}
           H == FlattenSeq(cs)
<1>1. /\ Sequence(messages) /\ Len(messages) \in Nat /\ DOMAIN messages = 1..Len(messages)
      /\ \A i \in 1..Len(messages) : Sequence(messages[i].calls)
  BY SequenceFacts DEF Conversed, Spoken
<1>2. cs = [i \in 1..Len(messages) |-> cs[i]] /\ \A i \in 1..Len(messages) : cs[i] = messages[i].calls
  BY <1>1
<1>3. CallNames(messages) = [x \in {H[i].id : i \in DOMAIN H} |-> Last(OfId(H, x)).name]
  BY DEF CallNames
<1> HIDE DEF cs
<1>4. Sequence(cs) /\ Len(cs) = Len(messages) /\ \A i \in 1..Len(cs) : Sequence(cs[i])
  BY <1>1, <1>2, FunctionIsSequence
<1>5. PICK V : cs \in Seq(Seq(V))
  BY <1>4, ManyTogether
<1>6. H \in Seq(V) /\ \A x : x \in Range(H) <=> \E i \in 1..Len(cs) : x \in Range(cs[i])
  BY <1>5, FlattenElements
<1> HIDE DEF H
<1>7. Sequence(H)
  BY <1>6, SequenceOf
<1>8. ASSUME NEW x \in Range(H) PROVE Made(messages, x.id, x.name)
  <2>1. PICK i \in 1..Len(messages) : x \in Range(cs[i])
    BY <1>4, <1>6
  <2>2. PICK j \in DOMAIN messages[i].calls : x = messages[i].calls[j]
    BY <1>2, <2>1 DEF Range
  <2> QED BY <2>1, <2>2 DEF Made
<1>9. \E x \in Range(H) : x.id = id
  <2>1. PICK i \in 1..Len(messages) : \E j \in DOMAIN messages[i].calls :
               messages[i].calls[j].id = id /\ messages[i].calls[j].name = name
    BY DEF Made
  <2>2. PICK j \in DOMAIN messages[i].calls : messages[i].calls[j].id = id
    BY <2>1
  <2>3. messages[i].calls[j] \in Range(cs[i]) /\ i \in 1..Len(cs)
    BY <1>2, <1>4, <2>2 DEF Range
  <2> QED BY <1>6, <2>2, <2>3
<1>10. Last(OfId(H, id)) \in Range(H) /\ Last(OfId(H, id)).id = id
  BY <1>7, <1>9, LastOfId
<1>11. Last(OfId(H, id)).name = name
  <2>1. Made(messages, id, Last(OfId(H, id)).name)
    BY <1>8, <1>10
  <2> QED BY <2>1, OneCallEach
<1>12. id \in {H[i].id : i \in DOMAIN H}
  BY <1>9 DEF Range
<1> QED BY <1>3, <1>11, <1>12

LEMMA ResultPartFields ==
  ASSUME NEW d, NEW names, NEW m
  PROVE  /\ d \in ByName => ResultPart(d, names, m).name =
              IF m.answers \in DOMAIN names THEN names[m.answers] ELSE ""
         /\ d \notin ByName => ResultPart(d, names, m).id = m.answers
<1>1. \A text, id, name : /\ Part("result", text, id, name).id = id
                          /\ Part("result", text, id, name).name = name
  BY PartFields
<1> DEFINE named == IF m.answers \in DOMAIN names THEN names[m.answers] ELSE ""
<1>2. ASSUME d \in ByName PROVE ResultPart(d, names, m).name = named
  <2>1. ResultPart(d, names, m) = Part("result", m.text, NoId, named)
    BY <1>2 DEF ResultPart
  <2> HIDE DEF named
  <2> QED BY <1>1, <2>1
<1>3. ASSUME d \notin ByName PROVE ResultPart(d, names, m).id = m.answers
  <2>1. PICK name : ResultPart(d, names, m) = Part("result", m.text, m.answers, name)
    BY <1>3 DEF ResultPart
  <2> QED BY <1>1, <2>1
<1> QED BY <1>2, <1>3

LEMMA ResultsAreNamed ==
  ASSUME Conversing, Sequence(meant), dialect \in Dialect
  PROVE  ToolResultsNamed
<1> SUFFICES ASSUME IdsDiffer, dialect # "ollama" PROVE ResultsNamed
  BY DEF ToolResultsNamed
<1>1. dialect \in ById \cup ByName
  BY DEF Dialect, ById, ByName
<1> DEFINE request == Request(dialect, messages)
           names == CallNames(messages)
           results == Parts(request, "result")
           calls == Parts(request, "call")
           tools == Role(messages, "tool")
<1>2. /\ Conversed(messages) /\ Len(tools) = Len(meant)
      /\ \A k \in 1..Len(meant) : Made(messages, tools[k].answers, meant[k])
  BY DEF Conversing
<1>3. /\ Matches(dialect, names, results, tools)
      /\ dialect \in ById =>
           /\ Sequence(calls)
           /\ \A x \in Range(calls) : Made(messages, x.id, x.name)
           /\ \A id, name : Made(messages, id, name) => \E x \in Range(calls) : x.id = id /\ x.name = name
  BY <1>1, <1>2, RequestTold
<1>4. DOMAIN meant = 1..Len(meant)
  BY SequenceFacts
<1>5. \A k \in DOMAIN meant : results[k] = ResultPart(dialect, names, tools[k])
  BY <1>2, <1>3, <1>4 DEF Matches
<1>6. \A k : ResultOf(dialect, request, k) =
               CASE dialect \in {"gemini", "code_assist"} -> results[k].name
                 [] dialect = "ollama" -> IF k <= Len(calls) THEN calls[k].name ELSE ""
                 [] OTHER -> IF OfId(calls, results[k].id) = <<>> THEN ""
                             ELSE Last(OfId(calls, results[k].id)).name
  BY DEF ResultOf
<1> HIDE DEF request, results, calls, tools, names
<1>7. ASSUME NEW k \in DOMAIN meant PROVE ResultOf(dialect, request, k) = meant[k]
  <2> DEFINE id == tools[k].answers
  <2>1. \A r, m : r = ResultPart(dialect, names, m) =>
          /\ dialect \in ByName => r.name = IF m.answers \in DOMAIN names THEN names[m.answers] ELSE ""
          /\ dialect \notin ByName => r.id = m.answers
    <3>1. \A m :
          /\ dialect \in ByName => ResultPart(dialect, names, m).name =
                                    IF m.answers \in DOMAIN names THEN names[m.answers] ELSE ""
          /\ dialect \notin ByName => ResultPart(dialect, names, m).id = m.answers
      BY ResultPartFields
    <3> QED BY <3>1
  <2>2. Made(messages, id, meant[k])
    BY <1>2, <1>4
  <2>3. results[k] = ResultPart(dialect, names, tools[k])
    BY <1>5
  <2>4. CASE dialect \in ByName
    <3>1. ResultOf(dialect, request, k) = results[k].name
      BY <1>6, <2>4 DEF ByName
    <3>2. results[k].name = IF id \in DOMAIN names THEN names[id] ELSE ""
      BY <2>4, <2>3, <2>1
    <3>3. id \in DOMAIN names /\ names[id] = meant[k]
      BY <1>2, <2>2, NamesKnown DEF names
    <3> QED BY <3>1, <3>2, <3>3
  <2>5. CASE dialect \in ById
    <3>1. results[k].id = id
      <4>1. dialect \notin ByName
        BY <2>5 DEF ById, ByName
      <4> QED BY <2>3, <2>1, <4>1
    <3>2. ResultOf(dialect, request, k) = IF OfId(calls, id) = <<>> THEN "" ELSE Last(OfId(calls, id)).name
      <4>1. dialect \notin {"gemini", "code_assist"} /\ dialect # "ollama"
        BY <2>5 DEF ById
      <4> QED BY <1>6, <3>1, <4>1
    <3>3. \E x \in Range(calls) : x.id = id
      BY <1>3, <2>2, <2>5
    <3>4. OfId(calls, id) # <<>> /\ Last(OfId(calls, id)) \in Range(calls) /\ Last(OfId(calls, id)).id = id
      BY <1>3, <2>5, <3>3, LastOfId
    <3>5. Made(messages, id, Last(OfId(calls, id)).name)
      BY <1>3, <2>5, <3>4
    <3>6. Last(OfId(calls, id)).name = meant[k]
      BY <1>2, <2>2, <3>5, OneCallEach
    <3> QED BY <3>2, <3>4, <3>6
  <2> QED BY <1>1, <2>4, <2>5
<1>8. Len(results) = Len(meant)
  BY <1>2, <1>3 DEF Matches
<1> QED BY <1>7, <1>8 DEF ResultsNamed, request, results

----------------------------------------------------------------------------
(* The conversation grows by the results of a turn *)

LEMMA RoleAdded ==
  ASSUME NEW ms, Sequence(ms), NEW said, said.role # "tool",
         NEW tools, Sequence(tools), \A x \in Range(tools) : x.role = "tool"
  PROVE  Role(ms \o <<said>> \o tools, "tool") = Role(ms, "tool") \o tools
<1> DEFINE one == <<said>>
           most == ms \o one
           all == most \o tools
           S == {m \in Range(all) : m.role = "tool"}
<1>1. Sequence(one) /\ Range(one) = {said}
  BY OneRange
<1> HIDE DEF one
<1>2. PICK U : ms \in Seq(U) /\ one \in Seq(U)
  BY <1>1, Together
<1>3. Sequence(most)
  <2>1. most \in Seq(U)
    BY <1>2, ConcatElements
  <2> QED BY <2>1, SequenceOf
<1>4. Range(most) = Range(ms) \cup Range(one)
  BY <1>2, RangeConcat
<1>5. \A s : Kept(most, s) = Kept(ms, s) \o Kept(one, s)
  BY <1>2, KeptConcat
<1> HIDE DEF most
<1>6. PICK V : most \in Seq(V) /\ tools \in Seq(V)
  BY <1>3, Together
<1>7. Range(all) = Range(most) \cup Range(tools)
  BY <1>6, RangeConcat
<1>8. \A s : Kept(all, s) = Kept(most, s) \o Kept(tools, s)
  BY <1>6, KeptConcat
<1> HIDE DEF all
<1>9. \A x \in Range(tools) : x \in S
  BY <1>7
<1>10. \A x \in Range(one) : x \notin S
  BY <1>1
<1>11. \A x \in Range(ms) : x \in S <=> x \in {m \in Range(ms) : m.role = "tool"}
  BY <1>4, <1>7
<1>12. Role(all, "tool") = Kept(all, S)
  BY DEF Role
<1> HIDE DEF S
<1>13. Kept(tools, S) = tools /\ Kept(one, S) = <<>>
  BY <1>2, <1>6, <1>9, <1>10, KeptAll, KeptNone
<1>14. Kept(ms, S) = Role(ms, "tool")
  BY <1>11, KeptSame DEF Role
<1>15. Kept(ms, S) \in Seq(U)
  BY <1>2, KeptElements
<1>16. Kept(ms, S) \o <<>> = Kept(ms, S)
  BY <1>15, ConcatEmptySeq
<1>17. Role(all, "tool") = Role(ms, "tool") \o tools
  BY <1>5, <1>8, <1>12, <1>13, <1>14, <1>16
<1> QED BY <1>17 DEF all, most, one

\* A message that makes calls, and those that answer them.
Calling(said, calls) == said.role = "assistant" /\ said.calls = calls /\ Sequence(calls)
Answering(tools, calls) ==
  /\ Sequence(tools) /\ Len(tools) = Len(calls)
  /\ \A i \in 1..Len(calls) : tools[i].role = "tool" /\ tools[i].calls = <<>>

Continues(ms, calls, o, tools, next) ==
  /\ Conversed(next) /\ Role(next, "tool") = Role(ms, "tool") \o tools
  /\ \A id, name : Made(ms, id, name) => Made(next, id, name)
  /\ \A i \in 1..Len(calls) : Made(next, calls[o[i]].id, calls[o[i]].name)

LEMMA ConversationGrows ==
  ASSUME NEW ms, Conversed(ms), NEW calls, NEW o \in Orders(Len(calls)),
         NEW said, Calling(said, calls), NEW tools, Answering(tools, calls),
         NEW next, next = ms \o <<said>> \o tools
  PROVE  Continues(ms, calls, o, tools, next)
<1> DEFINE n == Len(calls)
           m == Len(ms)
           most == ms \o <<said>>
<1>1. /\ n \in Nat /\ DOMAIN calls = 1..n
      /\ Sequence(ms) /\ m \in Nat /\ m >= 1
      /\ \A i \in 1..m : Spoken(ms[i]) /\ (ms[i].role = "system" <=> i = 1)
  BY SequenceFacts DEF Conversed, Calling
<1>2. said.role = "assistant" /\ said.calls = calls
  BY DEF Calling
<1>3. Spoken(said)
  BY <1>2 DEF Spoken, Calling
<1>4. ASSUME NEW i \in 1..n
      PROVE  tools[i].role = "tool" /\ Spoken(tools[i])
  <2>1. Sequence(<<>>)
    BY OneRange
  <2>2. tools[i].role = "tool" /\ tools[i].calls = <<>>
    BY DEF Answering
  <2> QED BY <2>1, <2>2 DEF Spoken
<1>6. Sequence(tools) /\ Len(tools) = n /\ DOMAIN tools = 1..n
  BY SequenceFacts DEF Answering
<1>7. \A x \in Range(tools) : x.role = "tool"
  BY <1>4, <1>6 DEF Range
<1> HIDE DEF n
<1>8. next = ms \o <<said>> \o tools
  OBVIOUS
<1>9. Role(next, "tool") = Role(ms, "tool") \o tools
  <2>1. said.role # "tool"
    BY <1>2
  <2>2. Role(ms \o <<said>> \o tools, "tool") = Role(ms, "tool") \o tools
    BY <1>1, <1>6, <1>7, <2>1, RoleAdded
  <2> QED BY <1>8, <2>2
<1>10. /\ Sequence(most) /\ Len(most) = m + 1
       /\ \A i \in 1..m : most[i] = ms[i]
       /\ most[m + 1] = said
  BY <1>1, SequenceAndOne
<1> HIDE DEF most, m
<1>11. /\ Sequence(next) /\ Len(next) = m + 1 + n
       /\ \A i \in 1..(m + 1) : next[i] = most[i]
       /\ \A i \in 1..n : next[m + 1 + i] = tools[i]
  <2>1. next = most \o tools
    BY <1>8 DEF most
  <2>2. /\ Sequence(most \o tools) /\ Len(most \o tools) = Len(most) + Len(tools)
        /\ \A i \in 1..Len(most) : (most \o tools)[i] = most[i]
        /\ \A i \in 1..Len(tools) : (most \o tools)[Len(most) + i] = tools[i]
    <3>1. Sequence(most) /\ Sequence(tools)
      BY <1>6, <1>10
    <3> QED BY <3>1, SequenceConcat
  <2> QED BY <1>6, <1>10, <2>1, <2>2
<1>12. ASSUME NEW i \in 1..Len(next)
       PROVE  Spoken(next[i]) /\ (next[i].role = "system" <=> i = 1)
  <2>1. CASE i \in 1..m
    <3>1. next[i] = ms[i]
      BY <1>1, <1>10, <1>11, <2>1
    <3> QED BY <1>1, <2>1, <3>1
  <2>2. CASE i = m + 1
    <3>1. next[i] = said /\ i # 1
      BY <1>1, <1>10, <1>11, <2>2
    <3> QED BY <1>2, <1>3, <3>1
  <2>3. CASE i \notin 1..(m + 1)
    <3>1. i - (m + 1) \in 1..n /\ m + 1 + (i - (m + 1)) = i /\ i # 1
      BY <1>1, <1>11, <2>3
    <3>2. next[i] = tools[i - (m + 1)]
      BY <1>11, <3>1
    <3> QED BY <1>4, <3>1, <3>2
  <2> QED BY <1>1, <2>1, <2>2, <2>3
<1>13. Conversed(next)
  <2>1. Len(next) >= 1
    BY <1>1, <1>11
  <2> QED BY <1>11, <1>12, <2>1 DEF Conversed
<1>14. ASSUME NEW id, NEW name, Made(ms, id, name) PROVE Made(next, id, name)
  <2>1. PICK i \in 1..m : \E j \in DOMAIN ms[i].calls :
               ms[i].calls[j].id = id /\ ms[i].calls[j].name = name
    BY <1>14 DEF Made, m
  <2>2. i \in 1..Len(next) /\ next[i] = ms[i]
    BY <1>1, <1>10, <1>11
  <2> QED BY <2>1, <2>2 DEF Made
<1>15. ASSUME NEW i \in 1..n PROVE Made(next, calls[o[i]].id, calls[o[i]].name)
  <2>1. o[i] \in DOMAIN calls
    BY <1>1 DEF Orders, n
  <2>2. m + 1 \in 1..Len(next) /\ m + 1 \in 1..(m + 1)
    BY <1>1, <1>11
  <2>3. next[m + 1] = said
    BY <1>10, <1>11, <2>2
  <2>4. next[m + 1].calls = calls
    BY <1>2, <2>3
  <2> QED BY <2>1, <2>2, <2>4 DEF Made
<1> QED BY <1>9, <1>13, <1>14, <1>15 DEF n, Continues

LEMMA ConversationStarts == Init => Conversing
<1> SUFFICES ASSUME Init PROVE Conversing
  OBVIOUS
<1>1. /\ messages = <<messages[1], messages[2]>> /\ Len(messages) = 2
      /\ messages[1].role = "system" /\ messages[2].role = "user"
      /\ messages[1].calls = <<>> /\ messages[2].calls = <<>>
      /\ meant = <<>> /\ Len(meant) = 0
  BY DEF Init, Message
<1> DEFINE U == {messages[1], messages[2]}
<1>2. messages \in Seq(U)
  <2>1. \A a, b : <<a, b>> \in Seq({a, b})
    OBVIOUS
  <2> QED BY <1>1, <2>1
<1>3. \A x \in Range(messages) : x.role # "tool"
  BY <1>1 DEF Range
<1> HIDE DEF U
<1>4. Sequence(messages)
  BY <1>2, SequenceOf
<1>5. \A i \in 1..Len(messages) : Spoken(messages[i]) /\ (messages[i].role = "system" <=> i = 1)
  <2>1. Sequence(<<>>)
    BY OneRange
  <2>2. Spoken(messages[1]) /\ Spoken(messages[2])
    BY <1>1, <2>1 DEF Spoken
  <2>3. \A i \in 1..Len(messages) : i = 1 \/ i = 2
    BY <1>1
  <2> QED BY <1>1, <2>2, <2>3
<1>6. Conversed(messages)
  BY <1>1, <1>4, <1>5 DEF Conversed
<1>7. Role(messages, "tool") = <<>>
  <2>1. \A x \in Range(messages) : x \notin {m \in Range(messages) : m.role = "tool"}
    BY <1>3
  <2> QED BY <1>2, <2>1, KeptNone DEF Role
<1>8. Len(<<>>) = 0 /\ 1..0 = {}
  OBVIOUS
<1> QED BY <1>1, <1>6, <1>7, <1>8 DEF Conversing

LEMMA ConversationGoesOn == ASSUME IInv, Conversing, NextTurn PROVE Conversing'
<1> DEFINE calls == response.calls
           n == Len(calls)
           tools == Role(messages, "tool")
<1>1. PICK o \in Orders(n) :
        /\ messages' = messages \o <<Message("assistant", response.text, calls, NoId)>>
             \o [i \in DOMAIN calls |-> Message("tool", <<"t">>, <<>>, calls[o[i]].id)]
        /\ meant' = meant \o [i \in DOMAIN calls |-> calls[o[i]].name]
  BY DEF NextTurn
<1>2. /\ Sequence(meant) /\ Sequence(calls) /\ n \in Nat /\ DOMAIN calls = 1..n
      /\ Len(meant) \in Nat
  BY SequenceFacts DEF IInv, Typed
<1> DEFINE new == [i \in 1..n |-> Message("tool", <<"t">>, <<>>, calls[o[i]].id)]
           names == [i \in 1..n |-> calls[o[i]].name]
<1>3. /\ messages' = messages \o <<Message("assistant", response.text, calls, NoId)>> \o new
      /\ meant' = meant \o names
  BY <1>1, <1>2
<1>4. /\ Conversed(messages) /\ Len(tools) = Len(meant)
      /\ \A k \in 1..Len(meant) : Made(messages, tools[k].answers, meant[k])
  BY DEF Conversing
<1>5. /\ new = [i \in 1..n |-> new[i]] /\ names = [i \in 1..n |-> names[i]]
      /\ \A i \in 1..n : /\ new[i].role = "tool" /\ new[i].calls = <<>>
                        /\ new[i].answers = calls[o[i]].id /\ names[i] = calls[o[i]].name
  BY DEF Message
<1> DEFINE said == Message("assistant", response.text, calls, NoId)
           next == messages'
<1>6. said.role = "assistant" /\ said.calls = calls /\ next = messages \o <<said>> \o new
  BY <1>3 DEF Message
<1> HIDE DEF new, names, n, calls, said, next
<1>7. Sequence(new) /\ Len(new) = n /\ Sequence(names) /\ Len(names) = n
  BY <1>2, <1>5, FunctionIsSequence
<1>8. /\ Conversed(next) /\ Role(next, "tool") = tools \o new
      /\ \A id, name : Made(messages, id, name) => Made(next, id, name)
      /\ \A i \in 1..n : Made(next, calls[o[i]].id, calls[o[i]].name)
  <2>1. Len(calls) = n
    BY DEF n
  <2>2. o \in Orders(Len(calls)) /\ Calling(said, calls)
    BY <1>2, <1>6, <2>1 DEF Calling
  <2>3. Answering(new, calls)
    BY <1>5, <1>7, <2>1 DEF Answering
  <2>4. /\ Conversed(next) /\ Role(next, "tool") = Role(messages, "tool") \o new
        /\ \A id, name : Made(messages, id, name) => Made(next, id, name)
        /\ \A i \in 1..Len(calls) : Made(next, calls[o[i]].id, calls[o[i]].name)
    <3>1. Conversed(messages) /\ next = messages \o <<said>> \o new
      BY <1>4, <1>6
    <3>2. Continues(messages, calls, o, new, next)
      BY <2>2, <2>3, <3>1, ConversationGrows
    <3> QED BY <3>2 DEF Continues
  <2> QED BY <2>1, <2>4 DEF tools
<1>9. Sequence(tools)
  <2>1. Sequence(messages)
    BY <1>4 DEF Conversed
  <2>2. tools \in Seq({messages[i] : i \in DOMAIN messages})
    BY <2>1, KeptElements DEF Sequence, Role
  <2> QED BY <2>2, SequenceOf
<1> HIDE DEF tools
<1>10. /\ Len(tools \o new) = Len(meant) + n
       /\ \A i \in 1..Len(meant) : (tools \o new)[i] = tools[i]
       /\ \A i \in 1..n : (tools \o new)[Len(meant) + i] = new[i]
  <2>1. /\ Len(tools \o new) = Len(tools) + Len(new)
        /\ \A i \in 1..Len(tools) : (tools \o new)[i] = tools[i]
        /\ \A i \in 1..Len(new) : (tools \o new)[Len(tools) + i] = new[i]
    BY <1>7, <1>9, SequenceConcat
  <2> QED BY <1>4, <1>7, <2>1 DEF tools
<1>11. /\ Len(meant') = Len(meant) + n
       /\ \A i \in 1..Len(meant) : meant'[i] = meant[i]
       /\ \A i \in 1..n : meant'[Len(meant) + i] = names[i]
  <2>1. /\ Len(meant \o names) = Len(meant) + Len(names)
        /\ \A i \in 1..Len(meant) : (meant \o names)[i] = meant[i]
        /\ \A i \in 1..Len(names) : (meant \o names)[Len(meant) + i] = names[i]
    BY <1>2, <1>7, SequenceConcat
  <2> QED BY <1>3, <1>7, <2>1
<1>12. ASSUME NEW k \in 1..(Len(meant) + n)
       PROVE  Made(next, (tools \o new)[k].answers, meant'[k])
  <2>1. CASE k \in 1..Len(meant)
    BY <1>4, <1>8, <1>10, <1>11, <2>1
  <2>2. CASE k \notin 1..Len(meant)
    <3>1. PICK j \in 1..n : k = Len(meant) + j
      <4>1. k - Len(meant) \in 1..n /\ k = Len(meant) + (k - Len(meant))
        BY <1>2, <2>2
      <4> QED BY <4>1
    <3>2. (tools \o new)[k] = new[j] /\ meant'[k] = names[j]
      BY <1>10, <1>11, <3>1
    <3> QED BY <1>5, <1>8, <3>1, <3>2
  <2> QED BY <2>1, <2>2
<1> QED BY <1>8, <1>10, <1>11, <1>12 DEF Conversing, next

\* Only the caller adds to the conversation.
LEMMA ConversationKept ==
  ASSUME Conversing, UNCHANGED <<messages, meant>>
  PROVE  Conversing'
BY DEF Conversing

\* The results of the conversation keep the functions they are of.
THEOREM ConversationInvariant == Spec => []Conversing
<1>1. IInv /\ Conversing /\ [Next]_vars => Conversing'
  <2> SUFFICES ASSUME IInv, Conversing, [Next]_vars PROVE Conversing'
    OBVIOUS
  <2>1. CASE NextTurn
    BY <2>1, ConversationGoesOn
  <2>2. CASE Begin \/ Bearer \/ Answers \/ BackoffEnds \/ Fails
    <3>1. UNCHANGED <<messages, meant>>
      BY <2>2 DEF Begin, Bearer, Answers, BackoffEnds, Fails
    <3> QED BY <3>1, ConversationKept
  <2>3. CASE Retry \/ ReadTimeout
    <3>1. UNCHANGED <<messages, meant>>
      BY <2>3 DEF Retry, ReadTimeout
    <3> QED BY <3>1, ConversationKept
  <2>4. CASE Chunk \/ EndOfStream \/ Breaks \/ Abort
    <3>1. UNCHANGED <<messages, meant>>
      BY <2>4 DEF Chunk, EndOfStream, Breaks, Abort
    <3> QED BY <3>1, ConversationKept
  <2>5. CASE Silence \/ Drip \/ UNCHANGED vars
    <3>1. UNCHANGED <<messages, meant>>
      BY <2>5 DEF Silence, Drip, vars
    <3> QED BY <3>1, ConversationKept
  <2> QED BY <2>1, <2>2, <2>3, <2>4, <2>5 DEF Next
<1> QED BY <1>1, ConversationStarts, CallInvariant, PTL DEF Spec

\* In every dialect but Ollama's, each tool result reaches the provider as the
\* result of the function that was called, while the calls' ids differ.
THEOREM ResultsReachTheirFunction == Spec => []ToolResultsNamed
<1>1. IInv /\ Conversing => ToolResultsNamed
  <2> SUFFICES ASSUME IInv, Conversing PROVE ToolResultsNamed
    OBVIOUS
  <2>1. Sequence(meant) /\ dialect \in Dialect
    BY ProviderCallAssumption DEF IInv, Typed, TypeOK
  <2> QED BY <2>1, ResultsAreNamed
<1> QED BY <1>1, CallInvariant, ConversationInvariant, PTL
=============================================================================
