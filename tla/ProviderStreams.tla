-------------------------- MODULE ProviderStreams --------------------------
(***************************************************************************)
(* What folding the lines of a stream gives, for every answer, dialect and *)
(* number of lines.  Assembled(d, a, r, k, f) describes the fold f of the  *)
(* first k lines of the wire of answer a in dialect d; it holds of the     *)
(* empty fold, every line keeps it (AssembledStep), and the response that  *)
(* is made of f begins as the answer does, or is all of it at the end      *)
(* (FinishText, FinishCalls).  Recursive definitions and folds are         *)
(* functions that CHOOSE picks: each is shown to exist before it is used,  *)
(* by induction on the naturals (Induction).                               *)
(***************************************************************************)
EXTENDS ProviderCall, SequenceTheorems, FiniteSetTheorems, WellFoundedInduction, TLAPS

\* Induction on the naturals, in the form the provers can use.
LEMMA Induction ==
  ASSUME NEW S, 0 \in S, \A n \in Nat : n \in S => n + 1 \in S
  PROVE  Nat \subseteq S
<1> DEFINE T == Nat \ S
<1> SUFFICES ASSUME T # {} PROVE FALSE
  OBVIOUS
<1>1. PICK x \in T : \A y \in T : <<y, x>> \notin OpToRel(<, Nat)
  <2> HIDE DEF T
  <2> T \subseteq Nat BY DEF T
  <2> QED BY NatLessThanWellFounded, WFMin
<1>2. x # 0 /\ x - 1 \in Nat
  OBVIOUS
<1>3. <<x - 1, x>> \in OpToRel(<, Nat)
  BY <1>2 DEF OpToRel
<1>4. x - 1 \in S
  BY <1>1, <1>2, <1>3
<1>5. (x - 1) + 1 \in S
  BY <1>2, <1>4
<1> QED BY <1>5

LEMMA MaxOfPrefix ==
  ASSUME NEW n \in Nat, NEW t \in SUBSET (1..n), t # {}
  PROVE  /\ Max(t) \in t /\ Max(t) \in 1..n
         /\ \A x \in t : Max(t) >= x
<1> DEFINE S == {m \in Nat : \A u \in SUBSET (1..m) : u # {} =>
                                \E x \in u : \A y \in u : x >= y}
<1>1. 0 \in S
  <2> 1..0 = {} OBVIOUS
  <2> QED OBVIOUS
<1>2. ASSUME NEW m \in Nat, m \in S
      PROVE  m + 1 \in S
  <2> SUFFICES ASSUME NEW u \in SUBSET (1..(m + 1)), u # {}
               PROVE  \E x \in u : \A y \in u : x >= y
    OBVIOUS
  <2>1. CASE m + 1 \in u
    <3> \A y \in u : m + 1 >= y OBVIOUS
    <3> QED BY <2>1
  <2>2. CASE m + 1 \notin u
    <3> u \in SUBSET (1..m) BY <2>2
    <3> QED BY <1>2
  <2> QED BY <2>1, <2>2
<1>3. Nat \subseteq S
  <2> HIDE DEF S
  <2> QED BY <1>1, <1>2, Induction
<1>4. \E x \in t : \A y \in t : x >= y
  BY <1>3
<1> QED BY <1>4 DEF Max

\* The elements of a sequence are taken one after the other: the lines of a
\* stream by an adapter, the messages of a conversation by Anthropic's request,
\* or the tokens of a text by the reader of tool markup.
Takes(d, e, x) == IF d = "turns" THEN AnthropicTurn(e, x)
                  ELSE IF d = "markup" THEN MarkupStep(e, x)
                  ELSE Feed(d, e, x)

Folds(d, f, s, g) ==
  /\ g[0] = f
  /\ \A k \in 1..Len(s) : g[k] = Takes(d, g[k - 1], s[k])

Iterates(d, f, s, m, i) ==
  i = [t \in SUBSET (1..m) |->
         IF t = {} THEN f ELSE Takes(d, i[t \ {Max(t)}], s[Max(t)])]

LEMMA IterateExists ==
  ASSUME NEW d, NEW f, NEW s, NEW n \in Nat
  PROVE  \E i : Iterates(d, f, s, n, i)
<1> DEFINE S == {m \in Nat : \E i : Iterates(d, f, s, m, i)}
<1>1. 0 \in S
  <2> 1..0 = {} OBVIOUS
  <2> Iterates(d, f, s, 0, [t \in {{}} |-> f])
    BY DEF Iterates
  <2> QED OBVIOUS
<1>2. ASSUME NEW m \in Nat, m \in S
      PROVE  m + 1 \in S
  <2>1. PICK i : Iterates(d, f, s, m, i)
    BY <1>2
  <2> DEFINE Then(t) == IF m + 1 \in t
                        THEN Takes(d, i[t \ {m + 1}], s[m + 1]) ELSE i[t]
             j == [t \in SUBSET (1..(m + 1)) |-> Then(t)]
  <2>2. ASSUME NEW t \in SUBSET (1..(m + 1)), t # {}
        PROVE  j[t] = Takes(d, j[t \ {Max(t)}], s[Max(t)])
    <3>1. Max(t) \in t /\ Max(t) \in 1..(m + 1) /\ \A x \in t : Max(t) >= x
      BY <2>2, MaxOfPrefix, m + 1 \in Nat
    <3>2. CASE m + 1 \in t
      <4>1. Max(t) = m + 1
        BY <3>1, <3>2
      <4>2. t \ {m + 1} \in SUBSET (1..(m + 1)) /\ m + 1 \notin t \ {m + 1}
        OBVIOUS
      <4>3. j[t \ {m + 1}] = i[t \ {m + 1}]
        BY <4>2
      <4>4. j[t] = Takes(d, i[t \ {m + 1}], s[m + 1])
        BY <3>2
      <4> QED BY <4>1, <4>3, <4>4
    <3>3. CASE m + 1 \notin t
      <4>1. t \in SUBSET (1..m) /\ t \ {Max(t)} \in SUBSET (1..m)
        <5>1. \A x \in t : x \in 1..m
          BY <3>3
        <5> QED BY <5>1
      <4>2. j[t] = i[t] /\ j[t \ {Max(t)}] = i[t \ {Max(t)}]
        BY <3>3, <4>1
      <4>3. i[t] = Takes(d, i[t \ {Max(t)}], s[Max(t)])
        BY <2>1, <4>1, t # {} DEF Iterates
      <4> QED BY <4>2, <4>3
    <3> QED BY <3>2, <3>3
  <2>3. j[{}] = f
    <3>1. {} \in SUBSET (1..m) /\ {} \in SUBSET (1..(m + 1))
      OBVIOUS
    <3>2. i[{}] = f
      BY <2>1, <3>1 DEF Iterates
    <3> QED BY <3>1, <3>2
  <2>4. Iterates(d, f, s, m + 1, j)
    <3> HIDE DEF j
    <3>1. \A t \in SUBSET (1..(m + 1)) :
            j[t] = IF t = {} THEN f ELSE Takes(d, j[t \ {Max(t)}], s[Max(t)])
      BY <2>2, <2>3
    <3>2. j = [t \in SUBSET (1..(m + 1)) |-> j[t]]
      BY DEF j
    <3> QED BY <3>1, <3>2 DEF Iterates
  <2> QED BY <2>4
<1>3. Nat \subseteq S
  <2> HIDE DEF S
  <2> QED BY <1>1, <1>2, Induction
<1> QED BY <1>3

LEMMA FoldOfIterate ==
  ASSUME NEW d, NEW f, NEW L, NEW s \in Seq(L), NEW i, Iterates(d, f, s, Len(s), i)
  PROVE  \E g : Folds(d, f, s, g) /\ i[1..Len(s)] = g[Len(s)]
<1> DEFINE n == Len(s)
           g == [k \in 0..n |-> i[1..k]]
<1>1. n \in Nat /\ DOMAIN s = 1..n
  BY LenProperties
<1>2. Iterates(d, f, s, n, i)
  OBVIOUS
<1>4. g[0] = f
  <2>1. 1..0 = {} /\ {} \in SUBSET (1..n) /\ 0 \in 0..n
    BY <1>1
  <2>2. i[{}] = f
    BY <1>2, <2>1 DEF Iterates
  <2> QED BY <2>1, <2>2
<1>5. ASSUME NEW k \in 1..n
      PROVE  g[k] = Takes(d, g[k - 1], s[k])
  <2>1. 1..k \in SUBSET (1..n) /\ 1..k # {} /\ k \in Nat
    <3>1. \A x \in 1..k : x \in 1..n
      BY <1>1
    <3>2. k \in 1..k /\ k \in Nat
      BY <1>1
    <3> QED BY <3>1, <3>2
  <2>2. Max(1..k) = k
    <3>1. Max(1..k) \in 1..k /\ \A x \in 1..k : Max(1..k) >= x
      BY <2>1, MaxOfPrefix
    <3>2. Max(1..k) >= k
      BY <3>1, <2>1
    <3> QED BY <3>1, <3>2, <2>1
  <2>3. (1..k) \ {k} = 1..(k - 1)
    BY <2>1
  <2>4. i[1..k] = Takes(d, i[1..(k - 1)], s[k])
    BY <1>2, <2>1, <2>2, <2>3 DEF Iterates
  <2> QED BY <2>4, <1>1
<1>6. g[n] = i[1..n]
  BY <1>1
<1> HIDE DEF g
<1>7. Folds(d, f, s, g)
  BY <1>1, <1>4, <1>5 DEF Folds
<1> QED BY <1>6, <1>7

LEMMA FoldOfFeed ==
  ASSUME NEW d \in Dialect, NEW f, NEW L, NEW s \in Seq(L)
  PROVE  \E g : Folds(d, f, s, g) /\ FeedAll(d, f, s) = g[Len(s)]
<1> DEFINE n == Len(s)
           IsFold(i) == i = [t \in SUBSET (1..n) |->
                               IF t = {} THEN f ELSE Feed(d, i[t \ {Max(t)}], s[Max(t)])]
           i == CHOOSE i : IsFold(i)
<1>1. n \in Nat /\ DOMAIN s = 1..n
  BY LenProperties
<1>2. \A j : Iterates(d, f, s, n, j) <=> IsFold(j)
  <2>1. d # "turns" /\ d # "markup"
    BY DEF Dialect
  <2> QED BY <2>1 DEF Iterates, Takes
<1>3. IsFold(i)
  <2>1. \E j : IsFold(j)
    BY <1>1, <1>2, IterateExists
  <2> HIDE DEF IsFold
  <2> QED BY <2>1
<1>4. FeedAll(d, f, s) = i[1..n]
  BY <1>1 DEF FeedAll, FoldLeft, MapThenFoldSet
<1>5. Iterates(d, f, s, n, i)
  <2> HIDE DEF IsFold, i
  <2> QED BY <1>2, <1>3
<1> HIDE DEF i
<1> QED BY <1>4, <1>5, FoldOfIterate

LEMMA FoldOfMarkup ==
  ASSUME NEW f, NEW L, NEW s \in Seq(L)
  PROVE  \E g : Folds("markup", f, s, g) /\ FoldLeft(MarkupStep, f, s) = g[Len(s)]
<1> DEFINE n == Len(s)
           IsFold(i) == i = [t \in SUBSET (1..n) |->
                               IF t = {} THEN f ELSE MarkupStep(i[t \ {Max(t)}], s[Max(t)])]
           i == CHOOSE i : IsFold(i)
<1>1. n \in Nat /\ DOMAIN s = 1..n
  BY LenProperties
<1>2. \A j : Iterates("markup", f, s, n, j) <=> IsFold(j)
  BY DEF Iterates, Takes
<1>3. IsFold(i)
  <2>1. \E j : IsFold(j)
    BY <1>1, <1>2, IterateExists
  <2> HIDE DEF IsFold
  <2> QED BY <2>1
<1>4. FoldLeft(MarkupStep, f, s) = i[1..n]
  BY <1>1 DEF FoldLeft, MapThenFoldSet
<1>5. Iterates("markup", f, s, n, i)
  <2> HIDE DEF IsFold, i
  <2> QED BY <1>2, <1>3
<1> HIDE DEF i
<1> QED BY <1>4, <1>5, FoldOfIterate

LEMMA FoldOfTurns ==
  ASSUME NEW f, NEW L, NEW s \in Seq(L)
  PROVE  \E g : Folds("turns", f, s, g) /\ FoldLeft(AnthropicTurn, f, s) = g[Len(s)]
<1> DEFINE n == Len(s)
           IsFold(i) == i = [t \in SUBSET (1..n) |->
                               IF t = {} THEN f ELSE AnthropicTurn(i[t \ {Max(t)}], s[Max(t)])]
           i == CHOOSE i : IsFold(i)
<1>1. n \in Nat /\ DOMAIN s = 1..n
  BY LenProperties
<1>2. \A j : Iterates("turns", f, s, n, j) <=> IsFold(j)
  BY DEF Iterates, Takes
<1>3. IsFold(i)
  <2>1. \E j : IsFold(j)
    BY <1>1, <1>2, IterateExists
  <2> HIDE DEF IsFold
  <2> QED BY <2>1
<1>4. FoldLeft(AnthropicTurn, f, s) = i[1..n]
  BY <1>1 DEF FoldLeft, MapThenFoldSet
<1>5. Iterates("turns", f, s, n, i)
  <2> HIDE DEF IsFold, i
  <2> QED BY <1>2, <1>3
<1> HIDE DEF i
<1> QED BY <1>4, <1>5, FoldOfIterate

----------------------------------------------------------------------------
(* What an answer, a line and an assembly are *)

\* The provers do not see that a literal is a STRING.
Word  == STRING \cup {"", "hm", Garbled}
Kind  == {"think", "block", "text", "head", "args", "call", "calls", "usage", "completed"}
AText == Seq(Word)
ACall == [id : Nat \X Nat, name : Word, args : Seq(Word)]
ALine == [kind : Kind, index : Nat, text : AText, calls : Seq(ACall)]
AFold == [text : AText, slots : Seq(ACall), calls : Seq(ACall),
          usage : BOOLEAN, out : AText, thoughts : AText, full : BOOLEAN,
          final : AText, finalCalls : Seq(ACall)]

\* The model's own calls have ids of their own.
Generated == [text : AText, calls : Seq({c \in ACall : c.id # NoId})]

\* The line that is read for a line of the wire: that line, torn or not.
Reads(l, w) ==
  /\ l \in ALine /\ l.kind = w.kind /\ l.index = w.index
  /\ LikeText(l.text, w.text) /\ LikeCalls(l.calls, w.calls)

----------------------------------------------------------------------------
(* What folding the first k lines of a wire gives *)

\* The lines before the text, and those between the text and the last line.
LeadLen(d) == CASE d \in {"openai", "chatgpt"} -> 1
                [] d = "anthropic" -> 2
                [] OTHER -> 0

\* The fragments of the calls before the i-th and of the i-th.
Before(calls) ==
  LET before[i \in 0..Len(calls)] ==
        IF i = 0 THEN 0 ELSE before[i - 1] + 1 + Len(calls[i].args)
  IN before

InFragments == {"openai", "anthropic"}
BodyLen(d, a) == CASE d \in InFragments -> Before(a.calls)[Len(a.calls)]
                   [] d = "ollama" -> 1
                   [] OTHER -> Len(a.calls)

Within(n, top) == IF n < 0 THEN 0 ELSE IF n > top THEN top ELSE n
TextsFed(d, a, k) == Within(k - LeadLen(d), Len(a.text))
BodyFed(d, a, k)  == Within(k - LeadLen(d) - Len(a.text), BodyLen(d, a))
WireLen(d, a)     == LeadLen(d) + Len(a.text) + BodyLen(d, a) + 1

\* n text lines: OpenAI's content has a cap.
TextAssembled(d, a, n, f) ==
  /\ f.out = f.text
  /\ f.full <=> d = "openai" /\ n > MaxText
  /\ Len(f.text) = IF f.full THEN MaxText ELSE n
  /\ \A i \in 1..Len(f.text) : Like(f.text[i], a.text[i])

\* The first n pieces of a call's arguments have come.
PartOf(slot, call, n) ==
  /\ slot.id = call.id /\ slot.name = call.name /\ Len(slot.args) = n
  /\ \A x \in 1..n : Like(slot.args[x], call.args[x])

\* Anthropic's block 0 is the text, OpenAI has slots for MaxCalls calls.
First(d)    == IF d = "anthropic" THEN 1 ELSE 0
Slots(d, i) == IF d = "openai" /\ i > MaxCalls THEN MaxCalls ELSE First(d) + i

\* The i-th call has come up to fragment q of its arguments, those before it whole.
SlotsCut(d, a, i, q, slots) ==
  /\ Len(slots) = Slots(d, i)
  /\ \A j \in 1..(Len(slots) - First(d)) :
       PartOf(slots[First(d) + j], a.calls[j], IF j < i THEN Len(a.calls[j].args) ELSE q)

\* p fragments of calls.
TextBlock(d, slots) == Len(slots) > 0 /\ First(d) = 1 => slots[1] = NoCall
SlotsAssembled(d, a, p, slots) ==
  /\ TextBlock(d, slots)
  /\ \/ p = 0 /\ Len(slots) <= First(d)
     \/ \E i \in 1..Len(a.calls) : \E q \in 0..Len(a.calls[i].args) :
          p = Before(a.calls)[i - 1] + 1 + q /\ SlotsCut(d, a, i, q, slots)

\* p lines of the body.
CallsAssembled(d, a, p, f) ==
  CASE d \in InFragments -> SlotsAssembled(d, a, p, f.slots)
    [] d \in {"gemini", "code_assist"} ->
         /\ Len(f.calls) = p
         /\ \A i \in 1..p : LikeCall(f.calls[i], Numbered(a.calls)[i])
    [] d = "ollama" -> IF p = 0 THEN f.calls = <<>> ELSE LikeCalls(f.calls, Numbered(a.calls))
    [] d = "chatgpt" ->
         Len(f.calls) = p /\ \A i \in 1..p : LikeCall(f.calls[i], a.calls[i])

\* The last line.
EndAssembled(d, a, r, ended, f) ==
  /\ f.usage = ended
  /\ \/ f.final = <<>>
     \/ d = "chatgpt" /\ r /\ ended /\ LikeText(f.final, a.text)
  /\ \/ f.finalCalls = <<>>
     \/ d = "chatgpt" /\ r /\ ended /\ LikeCalls(f.finalCalls, a.calls)

Assembled(d, a, r, k, f) ==
  /\ f \in AFold
  /\ TextAssembled(d, a, TextsFed(d, a, k), f)
  /\ CallsAssembled(d, a, BodyFed(d, a, k), f)
  /\ EndAssembled(d, a, r, k = WireLen(d, a), f)

----------------------------------------------------------------------------
(* The wire *)

LEMMA FunctionIsSeq ==
  ASSUME NEW S, NEW n \in Nat, NEW s \in [1..n -> S]
  PROVE  s \in Seq(S) /\ Len(s) = n /\ DOMAIN s = 1..n
<1>1. s \in Seq(S)
  BY SeqDef
<1> QED BY <1>1, LenProperties

\* Before is the sequence of partial sums it looks like.
BeforeTo(calls, n, g) ==
  /\ g \in [0..n -> Nat]
  /\ \A i \in 0..n : g[i] = IF i = 0 THEN 0 ELSE g[i - 1] + 1 + Len(calls[i].args)
  /\ \A i, j \in 0..n : i < j => g[i] < g[j]

LEMMA BeforeFacts ==
  ASSUME NEW calls \in Seq(ACall)
  PROVE  BeforeTo(calls, Len(calls), Before(calls))
<1> DEFINE m == Len(calls)
           S == {n \in Nat : n <= m => \E g : BeforeTo(calls, n, g)}
<1>1. m \in Nat /\ \A i \in 1..m : Len(calls[i].args) \in Nat
  <2> SUFFICES ASSUME NEW i \in 1..m PROVE Len(calls[i].args) \in Nat
    BY LenProperties
  <2>1. calls[i] \in ACall
    BY ElementOfSeq
  <2>2. calls[i].args \in Seq(Word)
    BY <2>1 DEF ACall
  <2> QED BY <2>2, LenProperties
<1>2. 0 \in S
  <2>1. BeforeTo(calls, 0, [i \in 0..0 |-> 0])
    BY DEF BeforeTo
  <2> QED BY <2>1
<1>3. ASSUME NEW n \in Nat, n \in S
      PROVE  n + 1 \in S
  <2> SUFFICES ASSUME n + 1 <= m PROVE \E g : BeforeTo(calls, n + 1, g)
    OBVIOUS
  <2>1. PICK g : BeforeTo(calls, n, g)
    BY <1>1, <1>3
  <2> DEFINE top == g[n] + 1 + Len(calls[n + 1].args)
             h == [i \in 0..(n + 1) |-> IF i = n + 1 THEN top ELSE g[i]]
  <2>2. g[n] \in Nat /\ top \in Nat /\ top > g[n]
    BY <1>1, <2>1 DEF BeforeTo
  <2>3. h \in [0..(n + 1) -> Nat]
    BY <2>1, <2>2 DEF BeforeTo
  <2>4. ASSUME NEW i \in 0..(n + 1)
        PROVE  h[i] = IF i = 0 THEN 0 ELSE h[i - 1] + 1 + Len(calls[i].args)
    BY <2>1 DEF BeforeTo
  <2>5. ASSUME NEW i \in 0..(n + 1), NEW j \in 0..(n + 1), i < j
        PROVE  h[i] < h[j]
    <3>1. CASE j <= n
      BY <2>1, <2>5, <3>1 DEF BeforeTo
    <3>2. CASE j = n + 1
      <4>1. i \in 0..n /\ h[i] = g[i] /\ h[j] = top
        BY <2>5, <3>2
      <4>2. g[i] <= g[n] /\ g[i] \in Nat
        <5>1. i < n => g[i] < g[n]
          BY <2>1, <4>1 DEF BeforeTo
        <5>2. g[i] \in Nat /\ g[n] \in Nat
          BY <2>1, <4>1 DEF BeforeTo
        <5> QED BY <4>1, <5>1, <5>2
      <4> QED BY <2>2, <4>1, <4>2
    <3> QED BY <2>5, <3>1, <3>2
  <2>6. BeforeTo(calls, n + 1, h)
    <3> HIDE DEF h
    <3> QED BY <2>3, <2>4, <2>5 DEF BeforeTo
  <2> QED BY <2>6
<1>4. Nat \subseteq S
  <2> HIDE DEF S
  <2> QED BY <1>2, <1>3, Induction
<1>5. PICK g : BeforeTo(calls, m, g)
  BY <1>1, <1>4
<1>6. g = [i \in 0..m |-> IF i = 0 THEN 0 ELSE g[i - 1] + 1 + Len(calls[i].args)]
  BY <1>5 DEF BeforeTo
<1> DEFINE b == Before(calls)
<1>7. b = [i \in 0..m |-> IF i = 0 THEN 0 ELSE b[i - 1] + 1 + Len(calls[i].args)]
  BY <1>6 DEF Before
<1>8. ASSUME NEW i \in 0..m
      PROVE  b[i] = g[i]
  <2> DEFINE P == {n \in Nat : n <= m => b[n] = g[n]}
  <2> HIDE DEF b
  <2>1. 0 \in P
    BY <1>1, <1>6, <1>7
  <2>2. ASSUME NEW n \in Nat, n \in P
        PROVE  n + 1 \in P
    <3> SUFFICES ASSUME n + 1 <= m PROVE b[n + 1] = g[n + 1]
      OBVIOUS
    <3>1. n + 1 \in 0..m /\ b[n] = g[n] /\ n + 1 # 0 /\ (n + 1) - 1 = n
      BY <1>1, <2>2
    <3> QED BY <1>6, <1>7, <3>1
  <2>3. Nat \subseteq P
    <3> HIDE DEF P
    <3> QED BY <2>1, <2>2, Induction
  <2> QED BY <1>1, <2>3
<1>9. b = g
  <2> HIDE DEF b
  <2> QED BY <1>6, <1>7, <1>8
<1> QED BY <1>5, <1>9

\* FlattenSeq concatenates one sequence after the other.
FlattenTo(seqs, n, h) ==
  h = [i \in 1..n |-> IF i = 1 THEN seqs[i] ELSE h[i - 1] \o seqs[i]]

LEMMA FlattenSteps ==
  ASSUME NEW S, NEW seqs \in Seq(S), Len(seqs) # 0
  PROVE  \E h : FlattenTo(seqs, Len(seqs), h) /\ FlattenSeq(seqs) = h[Len(seqs)]
<1> DEFINE T == {n \in Nat : \E h : FlattenTo(seqs, n, h)}
<1>1. 0 \in T
  <2>1. FlattenTo(seqs, 0, [i \in {} |-> i])
    <3>1. 1..0 = {} OBVIOUS
    <3> QED BY <3>1 DEF FlattenTo
  <2> QED BY <2>1
<1>2. ASSUME NEW n \in Nat, n \in T
      PROVE  n + 1 \in T
  <2>1. PICK g : FlattenTo(seqs, n, g)
    BY <1>2
  <2> DEFINE last == IF n = 0 THEN seqs[1] ELSE g[n] \o seqs[n + 1]
             h == [i \in 1..(n + 1) |-> IF i = n + 1 THEN last ELSE g[i]]
  <2>2. ASSUME NEW i \in 1..(n + 1)
        PROVE  h[i] = IF i = 1 THEN seqs[i] ELSE h[i - 1] \o seqs[i]
    <3>1. CASE i = n + 1
      <4>1. h[i] = last
        BY <3>1
      <4>2. i # 1 => h[i - 1] = g[n] /\ n # 0
        BY <3>1
      <4> QED BY <3>1, <4>1, <4>2
    <3>2. CASE i # n + 1
      <4>1. i \in 1..n /\ h[i] = g[i]
        BY <3>2
      <4>2. i # 1 => h[i - 1] = g[i - 1]
        BY <3>2
      <4> HIDE DEF h
      <4> QED BY <2>1, <4>1, <4>2 DEF FlattenTo
    <3> QED BY <3>1, <3>2
  <2>3. FlattenTo(seqs, n + 1, h)
    <3>1. h = [i \in 1..(n + 1) |-> h[i]]
      OBVIOUS
    <3> HIDE DEF h
    <3> QED BY <2>2, <3>1 DEF FlattenTo
  <2> QED BY <2>3
<1>3. Nat \subseteq T
  <2> HIDE DEF T
  <2> QED BY <1>1, <1>2, Induction
<1>4. Len(seqs) \in Nat
  BY LenProperties
<1> DEFINE flatten == CHOOSE h : FlattenTo(seqs, Len(seqs), h)
<1>5. FlattenTo(seqs, Len(seqs), flatten)
  BY <1>3, <1>4
<1>6. FlattenSeq(seqs) = flatten[Len(seqs)]
  BY DEF FlattenSeq, FlattenTo
<1> HIDE DEF flatten
<1> QED BY <1>5, <1>6

\* The fragments of a call.
HeadLine(call, index)    == Line("head", index, <<>>, <<Call(call.id, call.name, <<>>)>>)
ArgsLine(call, index, q) == Line("args", index, <<>>, <<Call(NoId, "", <<call.args[q]>>)>>)

FragmentsOf(call, index, s) ==
  /\ s \in Seq(ALine)
  /\ Len(s) = 1 + Len(call.args)
  /\ s[1] = HeadLine(call, index)
  /\ \A q \in 1..Len(call.args) : s[1 + q] = ArgsLine(call, index, q)

LEMMA Singleton ==
  ASSUME NEW S, NEW x \in S
  PROVE  <<x>> \in Seq(S) /\ Len(<<x>>) = 1 /\ <<x>>[1] = x
OBVIOUS

LEMMA CallType ==
  ASSUME NEW id \in Nat \X Nat, NEW name \in Word, NEW args \in Seq(Word)
  PROVE  Call(id, name, args) \in ACall
BY DEF Call, ACall

LEMMA LineType ==
  ASSUME NEW kind \in Kind, NEW index \in Nat, NEW text \in AText, NEW calls \in Seq(ACall)
  PROVE  Line(kind, index, text, calls) \in ALine
BY DEF Line, ALine

LEMMA FragmentsFacts ==
  ASSUME NEW call \in ACall, NEW index \in Nat
  PROVE  FragmentsOf(call, index, Fragments(call, index))
<1> DEFINE n == Len(call.args)
           head == <<HeadLine(call, index)>>
           args == [i \in 1..n |-> ArgsLine(call, index, i)]
<1>1. n \in Nat /\ DOMAIN call.args = 1..n /\ call.id \in Nat \X Nat
      /\ call.name \in Word /\ \A i \in 1..n : call.args[i] \in Word
  <2>1. call.args \in Seq(Word) /\ call.id \in Nat \X Nat /\ call.name \in Word
    BY DEF ACall
  <2> QED BY <2>1, LenProperties, ElementOfSeq
<1>2. HeadLine(call, index) \in ALine
  <2>1. Call(call.id, call.name, <<>>) \in ACall
    BY <1>1, CallType, EmptySeq
  <2>2. <<Call(call.id, call.name, <<>>)>> \in Seq(ACall) /\ <<>> \in AText
    BY <2>1, Singleton, EmptySeq DEF AText
  <2>3. "head" \in Kind
    BY DEF Kind
  <2> QED BY <2>2, <2>3, LineType DEF HeadLine
<1>3. ASSUME NEW i \in 1..n
      PROVE  ArgsLine(call, index, i) \in ALine
  <2>1. <<call.args[i]>> \in Seq(Word)
    BY <1>1, Singleton
  <2> NoId \in Nat \X Nat /\ "" \in Word
    BY DEF NoId, Word
  <2>2. Call(NoId, "", <<call.args[i]>>) \in ACall
    BY <2>1, CallType
  <2>3. <<Call(NoId, "", <<call.args[i]>>)>> \in Seq(ACall) /\ <<>> \in AText
    BY <2>2, Singleton, EmptySeq DEF AText
  <2>4. "args" \in Kind
    BY DEF Kind
  <2> QED BY <2>3, <2>4, LineType DEF ArgsLine
<1>4. args \in Seq(ALine) /\ Len(args) = n
  <2>1. args \in [1..n -> ALine]
    BY <1>3
  <2> HIDE DEF args
  <2> QED BY <1>1, <2>1, FunctionIsSeq
<1>5. head \in Seq(ALine) /\ Len(head) = 1 /\ head[1] = HeadLine(call, index)
  BY <1>2
<1>6. Fragments(call, index) = head \o args
  BY <1>1 DEF Fragments, HeadLine, ArgsLine
<1>7. \A i \in 1..n : args[i] = ArgsLine(call, index, i)
  OBVIOUS
<1> HIDE DEF head, args
<1> DEFINE s == head \o args
<1>8. s \in Seq(ALine) /\ Len(s) = 1 + n
      /\ \A i \in 1..(1 + n) : s[i] = IF i <= 1 THEN head[i] ELSE args[i - 1]
  BY <1>4, <1>5, ConcatProperties, SMTT(60)
<1>9. s[1] = HeadLine(call, index)
  BY <1>1, <1>5, <1>8
<1>10. ASSUME NEW q \in 1..n PROVE s[1 + q] = ArgsLine(call, index, q)
  <2>1. 1 + q \in 1..(1 + n) /\ ~(1 + q <= 1) /\ (1 + q) - 1 = q
    BY <1>1
  <2> QED BY <1>7, <1>8, <2>1
<1> QED BY <1>6, <1>8, <1>9, <1>10 DEF FragmentsOf

\* The fragments of the first n calls, from call to call.
AnAnswer == [text : AText, calls : Seq(ACall)]

FragmentsTo(calls, first, n, s) ==
  LET at == Before(calls)
  IN /\ s \in Seq(ALine)
     /\ Len(s) = at[n]
     /\ \A i \in 1..n :
          /\ s[at[i - 1] + 1] = HeadLine(calls[i], first + i - 1)
          /\ \A q \in 1..Len(calls[i].args) :
               s[at[i - 1] + 1 + q] = ArgsLine(calls[i], first + i - 1, q)

LEMMA FragmentsStep ==
  ASSUME NEW calls \in Seq(ACall), NEW first \in Nat, NEW n \in Nat, n < Len(calls),
         NEW s, FragmentsTo(calls, first, n, s)
  PROVE  FragmentsTo(calls, first, n + 1, s \o Fragments(calls[n + 1], first + n))
<1> DEFINE at == Before(calls)
           c  == calls[n + 1]
           t  == Fragments(c, first + n)
<1>1. /\ at \in [0..Len(calls) -> Nat]
      /\ \A i \in 1..Len(calls) : at[i] = at[i - 1] + 1 + Len(calls[i].args)
      /\ \A i, j \in 0..Len(calls) : i < j => at[i] < at[j]
      /\ Len(calls) \in Nat
  BY BeforeFacts, LenProperties DEF BeforeTo
<1>2. c \in ACall /\ Len(c.args) \in Nat
  <2>1. c \in ACall
    BY <1>1, ElementOfSeq
  <2> QED BY <2>1, LenProperties DEF ACall
<1>3. /\ t \in Seq(ALine) /\ Len(t) = 1 + Len(c.args)
      /\ t[1] = HeadLine(c, first + n)
      /\ \A q \in 1..Len(c.args) : t[1 + q] = ArgsLine(c, first + n, q)
  BY <1>2, FragmentsFacts, first + n \in Nat DEF FragmentsOf
<1>4. /\ s \in Seq(ALine) /\ Len(s) = at[n]
      /\ \A i \in 1..n :
           /\ s[at[i - 1] + 1] = HeadLine(calls[i], first + i - 1)
           /\ \A q \in 1..Len(calls[i].args) :
                s[at[i - 1] + 1 + q] = ArgsLine(calls[i], first + i - 1, q)
  BY DEF FragmentsTo
<1> HIDE DEF t
<1> DEFINE u == s \o t
<1>a. at[n] \in Nat /\ Len(c.args) \in Nat
  BY <1>1, <1>2
<1>b. s \in Seq(ALine) /\ t \in Seq(ALine)
  BY <1>3, <1>4
<1> HIDE DEF at, c
<1>5. /\ u \in Seq(ALine) /\ Len(u) = at[n] + 1 + Len(c.args)
      /\ \A x \in 1..Len(u) : u[x] = IF x <= at[n] THEN s[x] ELSE t[x - at[n]]
  <2>1. /\ u \in Seq(ALine) /\ Len(u) = Len(s) + Len(t)
        /\ \A x \in 1..(Len(s) + Len(t)) : u[x] = IF x <= Len(s) THEN s[x] ELSE t[x - Len(s)]
    BY <1>b, ConcatProperties
  <2>2. Len(s) = at[n] /\ Len(t) = 1 + Len(c.args)
    BY <1>3, <1>4 DEF c, at
  <2> HIDE DEF u
  <2>3. Len(u) = Len(s) + Len(t)
    BY <2>1
  <2>4. Len(s) + Len(t) = at[n] + 1 + Len(c.args)
    BY <1>a, <2>2
  <2> QED BY <2>1, <2>2, <2>3, <2>4
<1> HIDE DEF u
<1>c. Len(u) \in Nat /\ Len(u) > at[n]
  BY <1>a, <1>5
<1>6. Len(u) = at[n + 1]
  BY <1>1, <1>5 DEF c
<1>7. ASSUME NEW i \in 1..(n + 1)
      PROVE  /\ u[at[i - 1] + 1] = HeadLine(calls[i], first + i - 1)
             /\ \A q \in 1..Len(calls[i].args) :
                  u[at[i - 1] + 1 + q] = ArgsLine(calls[i], first + i - 1, q)
  <2>1. CASE i = n + 1
    <3>1. at[i - 1] = at[n] /\ at[n] \in Nat /\ first + i - 1 = first + n
      BY <1>1, <2>1
    <3>2. u[at[n] + 1] = t[1]
      <4>1. at[n] + 1 \in 1..Len(u) /\ ~(at[n] + 1 <= at[n]) /\ (at[n] + 1) - at[n] = 1
        BY <1>a, <1>5
      <4> QED BY <1>5, <4>1
    <3>3. ASSUME NEW q \in 1..Len(c.args)
          PROVE  u[at[n] + 1 + q] = t[1 + q]
      <4>1. /\ at[n] + 1 + q \in 1..Len(u) /\ ~(at[n] + 1 + q <= at[n])
            /\ (at[n] + 1 + q) - at[n] = 1 + q
        BY <1>a, <1>5
      <4> DEFINE p == at[n] + 1 + q
      <4>2. p \in 1..Len(u) /\ ~(p <= at[n]) /\ p - at[n] = 1 + q
        BY <4>1
      <4> HIDE DEF p
      <4>3. u[p] = t[p - at[n]]
        BY <1>5, <4>2
      <4> QED BY <4>2, <4>3 DEF p
    <3>4. /\ u[at[n] + 1] = HeadLine(c, first + n)
          /\ \A q \in 1..Len(c.args) : u[at[n] + 1 + q] = ArgsLine(c, first + n, q)
      BY <1>3, <3>2, <3>3 DEF c
    <3> QED BY <2>1, <3>1, <3>4 DEF c
  <2>2. CASE i \in 1..n
    <3>1. /\ at[i - 1] \in Nat /\ at[i] = at[i - 1] + 1 + Len(calls[i].args)
          /\ at[i] <= at[n] /\ at[n] \in Nat /\ Len(calls[i].args) \in Nat
      <4>1. at[i - 1] \in Nat /\ at[i] \in Nat /\ at[n] \in Nat
        <5>1. i - 1 \in 0..Len(calls) /\ i \in 0..Len(calls) /\ n \in 0..Len(calls)
          BY <1>1, <2>2
        <5> QED BY <1>1, <5>1
      <4>2. at[i] = at[i - 1] + 1 + Len(calls[i].args)
        BY <1>1, <2>2
      <4>3. at[i] <= at[n]
        <5>1. i < n => at[i] < at[n]
          BY <1>1, <2>2
        <5> QED BY <2>2, <4>1, <5>1
      <4>4. calls[i] \in ACall
        BY <1>1, <2>2, ElementOfSeq
      <4>5. Len(calls[i].args) \in Nat
        BY <4>4, LenProperties DEF ACall
      <4> QED BY <4>1, <4>2, <4>3, <4>5
    <3>2. at[i - 1] + 1 \in 1..Len(u) /\ at[i - 1] + 1 <= at[n]
      BY <1>a, <1>c, <3>1, SMTT(60)
    <3>3. ASSUME NEW q \in 1..Len(calls[i].args)
          PROVE  at[i - 1] + 1 + q \in 1..Len(u) /\ at[i - 1] + 1 + q <= at[n]
      <4>1. at[i - 1] + 1 + q <= at[i] /\ at[i - 1] + 1 + q \in Nat \ {0}
        BY <3>1
      <4>2. at[i] <= at[n] /\ at[n] \in Nat /\ at[i] \in Nat
        BY <3>1
      <4> QED BY <1>c, <4>1, <4>2
    <3> QED BY <1>4, <1>5, <2>2, <3>2, <3>3
  <2> QED BY <2>1, <2>2
<1> QED BY <1>5, <1>6, <1>7 DEF FragmentsTo, at, c, t, u

LEMMA AllFragmentsFacts ==
  ASSUME NEW a \in AnAnswer, NEW first \in Nat
  PROVE  FragmentsTo(a.calls, first, Len(a.calls), AllFragments(a, first))
<1> DEFINE calls == a.calls
           m == Len(calls)
           seqs == [i \in 1..m |-> Fragments(calls[i], first + i - 1)]
<1>1. calls \in Seq(ACall) /\ m \in Nat /\ DOMAIN calls = 1..m
  <2>1. calls \in Seq(ACall)
    BY DEF AnAnswer
  <2> QED BY <2>1, LenProperties
<1>2. ASSUME NEW i \in 1..m
      PROVE  Fragments(calls[i], first + i - 1) \in Seq(ALine)
  <2>1. calls[i] \in ACall /\ first + i - 1 \in Nat
    BY <1>1, ElementOfSeq
  <2> QED BY <2>1, FragmentsFacts DEF FragmentsOf
<1>3. seqs \in Seq(Seq(ALine)) /\ Len(seqs) = m
  <2>1. seqs \in [1..m -> Seq(ALine)]
    BY <1>2
  <2> HIDE DEF seqs
  <2> QED BY <1>1, <2>1, FunctionIsSeq
<1>4. AllFragments(a, first) = FlattenSeq(seqs)
  BY <1>1 DEF AllFragments
<1>5. /\ Before(calls)[0] = 0
      /\ FragmentsTo(calls, first, 0, <<>>)
  <2>1. Before(calls)[0] = 0
    BY <1>1, BeforeFacts DEF BeforeTo
  <2> QED BY <2>1, EmptySeq DEF FragmentsTo
<1>6. CASE m = 0
  <2>1. FlattenSeq(seqs) = seqs
    BY <1>3, <1>6 DEF FlattenSeq
  <2>2. seqs = <<>>
    <3> HIDE DEF seqs
    <3> QED BY <1>3, <1>6, EmptySeq
  <2> QED BY <1>4, <1>5, <1>6, <2>1, <2>2
<1>7. CASE m # 0
  <2>1. PICK h : FlattenTo(seqs, m, h) /\ FlattenSeq(seqs) = h[m]
    <3> HIDE DEF seqs
    <3> QED BY <1>3, <1>7, FlattenSteps
  <2>2. \A i \in 1..m : h[i] = IF i = 1 THEN Fragments(calls[1], first + 1 - 1)
                               ELSE h[i - 1] \o Fragments(calls[i], first + i - 1)
    BY <2>1 DEF FlattenTo
  <2> DEFINE P == {n \in Nat : n <= m => FragmentsTo(calls, first, n, IF n = 0 THEN <<>> ELSE h[n])}
  <2>3. 0 \in P
    BY <1>5
  <2>4. ASSUME NEW n \in Nat, n \in P
        PROVE  n + 1 \in P
    <3> SUFFICES ASSUME n + 1 <= m PROVE FragmentsTo(calls, first, n + 1, h[n + 1])
      BY n + 1 # 0
    <3> DEFINE s == IF n = 0 THEN <<>> ELSE h[n]
    <3>1. FragmentsTo(calls, first, n, s) /\ n < m
      BY <1>1, <2>4
    <3>2. FragmentsTo(calls, first, n + 1, s \o Fragments(calls[n + 1], first + n))
      BY <1>1, <3>1, FragmentsStep
    <3>3. h[n + 1] = s \o Fragments(calls[n + 1], first + n)
      <4>1. CASE n = 0
        <5>1. h[1] = Fragments(calls[1], first + 1 - 1) /\ first + 1 - 1 = first + n
          BY <1>1, <2>2, <4>1
        <5>2. Fragments(calls[1], first + n) \in Seq(ALine)
          BY <1>1, <1>2, <5>1, 1 \in 1..m, <4>1
        <5> QED BY <4>1, <5>1, <5>2, ConcatEmptySeq
      <4>2. CASE n # 0
        <5>1. n + 1 \in 1..m /\ n + 1 # 1 /\ (n + 1) - 1 = n /\ first + (n + 1) - 1 = first + n
          BY <1>1, <4>2
        <5> QED BY <2>2, <4>2, <5>1
      <4> QED BY <4>1, <4>2
    <3> QED BY <3>2, <3>3
  <2>5. Nat \subseteq P
    <3> HIDE DEF P
    <3> QED BY <2>3, <2>4, Induction
  <2>6. FragmentsTo(calls, first, m, h[m])
    BY <1>1, <1>7, <2>5
  <2> QED BY <1>4, <2>1, <2>6
<1> QED BY <1>6, <1>7

InParts(w, p, q, s, t) ==
  /\ Len(w) = Len(p) + Len(q) + Len(s) + Len(t)
  /\ \A i \in 1..Len(p) : w[i] = p[i]
  /\ \A i \in 1..Len(q) : w[Len(p) + i] = q[i]
  /\ \A i \in 1..Len(s) : w[Len(p) + Len(q) + i] = s[i]
  /\ \A i \in 1..Len(t) : w[Len(p) + Len(q) + Len(s) + i] = t[i]

LEMMA FourParts ==
  ASSUME NEW S, NEW p \in Seq(S), NEW q \in Seq(S), NEW s \in Seq(S), NEW t \in Seq(S)
  PROVE  p \o q \o s \o t \in Seq(S) /\ InParts(p \o q \o s \o t, p, q, s, t)
<1> DEFINE w == p \o q \o s \o t
<1> DEFINE u == p \o q
           v == u \o s
<1>1. Len(p) \in Nat /\ Len(q) \in Nat /\ Len(s) \in Nat /\ Len(t) \in Nat
  BY LenProperties
<1>2. /\ u \in Seq(S) /\ Len(u) = Len(p) + Len(q)
      /\ \A i \in 1..(Len(p) + Len(q)) : u[i] = IF i <= Len(p) THEN p[i] ELSE q[i - Len(p)]
  BY ConcatProperties
<1> HIDE DEF u
<1>3. /\ v \in Seq(S) /\ Len(v) = Len(u) + Len(s)
      /\ \A i \in 1..(Len(u) + Len(s)) : v[i] = IF i <= Len(u) THEN u[i] ELSE s[i - Len(u)]
  BY <1>2, ConcatProperties
<1> HIDE DEF v
<1> DEFINE x == v \o t
<1>a. v \in Seq(S)
  BY <1>3
<1>4. /\ x \in Seq(S) /\ Len(x) = Len(v) + Len(t)
      /\ \A i \in 1..(Len(v) + Len(t)) : x[i] = IF i <= Len(v) THEN v[i] ELSE t[i - Len(v)]
  BY <1>a, ConcatProperties
<1> HIDE DEF x
<1>5. /\ w \in Seq(S) /\ Len(w) = Len(v) + Len(t)
      /\ \A i \in 1..(Len(v) + Len(t)) : w[i] = IF i <= Len(v) THEN v[i] ELSE t[i - Len(v)]
  <2>1. w = x
    BY DEF u, v, x
  <2> HIDE DEF w
  <2> QED BY <1>4, <2>1
<1> HIDE DEF w
<1>6. Len(v) = Len(p) + Len(q) + Len(s)
  BY <1>1, <1>2, <1>3
<1>7. ASSUME NEW i \in 1..Len(p)
      PROVE  w[i] = p[i]
  <2>1. i \in 1..(Len(p) + Len(q)) /\ i \in 1..(Len(u) + Len(s)) /\ i \in 1..(Len(v) + Len(t))
        /\ i <= Len(u) /\ i <= Len(v)
    BY <1>1, <1>2, <1>6
  <2> QED BY <1>2, <1>3, <1>5, <2>1
<1>8. ASSUME NEW i \in 1..Len(q)
      PROVE  w[Len(p) + i] = q[i]
  <2> DEFINE j == Len(p) + i
  <2>1. j \in 1..(Len(p) + Len(q)) /\ j \in 1..(Len(u) + Len(s)) /\ j \in 1..(Len(v) + Len(t))
        /\ j <= Len(u) /\ j <= Len(v) /\ ~(j <= Len(p)) /\ j - Len(p) = i
    BY <1>1, <1>2, <1>6
  <2> HIDE DEF j
  <2>2. w[j] = q[i]
    BY <1>2, <1>3, <1>5, <2>1
  <2> QED BY <2>2 DEF j
<1>9. ASSUME NEW i \in 1..Len(s)
      PROVE  w[Len(p) + Len(q) + i] = s[i]
  <2> DEFINE j == Len(p) + Len(q) + i
  <2>1. j \in 1..(Len(u) + Len(s)) /\ j \in 1..(Len(v) + Len(t))
        /\ ~(j <= Len(u)) /\ j <= Len(v) /\ j - Len(u) = i
    BY <1>1, <1>2, <1>6
  <2> HIDE DEF j
  <2>2. w[j] = s[i]
    BY <1>3, <1>5, <2>1
  <2> QED BY <2>2 DEF j
<1>10. ASSUME NEW i \in 1..Len(t)
       PROVE  w[Len(p) + Len(q) + Len(s) + i] = t[i]
  <2> DEFINE j == Len(p) + Len(q) + Len(s) + i
  <2>1. j \in 1..(Len(v) + Len(t)) /\ ~(j <= Len(v)) /\ j - Len(v) = i
    BY <1>1, <1>6
  <2> HIDE DEF j
  <2>2. w[j] = t[i]
    BY <1>5, <2>1
  <2> QED BY <2>2 DEF j
<1>11. Len(w) = Len(p) + Len(q) + Len(s) + Len(t)
  BY <1>5, <1>6
<1>12. w \in Seq(S) /\ InParts(w, p, q, s, t)
  BY <1>5, <1>7, <1>8, <1>9, <1>10, <1>11 DEF InParts
<1> QED BY <1>12 DEF w

\* The parts of a wire.
Lead(d) == CASE d \in {"openai", "chatgpt"} -> Thought
             [] d = "anthropic" -> Thought \o <<Line("block", 0, <<>>, <<>>)>>
             [] OTHER -> <<>>
Body(d, a) == CASE d \in InFragments -> AllFragments(a, First(d))
                [] d = "ollama" -> <<Line("calls", 0, <<>>, a.calls)>>
                [] OTHER -> WholeCalls(a)
EndLine(d, a, r) ==
  IF d = "chatgpt"
  THEN Line("completed", 0, IF r THEN a.text ELSE <<>>, IF r THEN a.calls ELSE <<>>)
  ELSE Line("usage", 0, <<>>, <<>>)

LEMMA LeadFacts ==
  ASSUME NEW d \in Dialect
  PROVE  /\ Lead(d) \in Seq(ALine) /\ Len(Lead(d)) = LeadLen(d) /\ LeadLen(d) \in Nat
         /\ \A i \in 1..LeadLen(d) :
              \/ Lead(d)[i].kind = "think"
              \/ d = "anthropic" /\ Lead(d)[i].kind = "block" /\ Lead(d)[i].index = 0
<1> DEFINE think == Line("think", 0, <<"hm">>, <<>>)
           block == Line("block", 0, <<>>, <<>>)
<1>1. think \in ALine /\ block \in ALine
  <2>1. <<"hm">> \in AText
    <3>1. "hm" \in Word
      BY DEF Word
    <3> QED BY <3>1, Singleton DEF AText
  <2>2. "think" \in Kind /\ "block" \in Kind /\ <<>> \in Seq(ACall) /\ <<>> \in AText
    BY EmptySeq DEF Kind, AText
  <2> QED BY <2>1, <2>2, LineType
<1>2. think.kind = "think" /\ block.kind = "block" /\ block.index = 0
  BY DEF Line
<1> HIDE DEF think, block
<1>3. /\ <<think>> \in Seq(ALine) /\ Len(<<think>>) = 1 /\ <<think>>[1] = think
      /\ <<block>> \in Seq(ALine) /\ Len(<<block>>) = 1 /\ <<block>>[1] = block
  BY <1>1, Singleton
<1>4. CASE d \in {"openai", "chatgpt"}
  <2>1. Lead(d) = <<think>> /\ LeadLen(d) = 1
    BY <1>4 DEF Lead, LeadLen, Thought, think
  <2> QED BY <1>2, <1>3, <2>1
<1>5. CASE d = "anthropic"
  <2> DEFINE t == <<think>>
             b == <<block>>
             u == t \o b
  <2>1. Lead(d) = u /\ LeadLen(d) = 2
    BY <1>5 DEF Lead, LeadLen, Thought, think, block
  <2> HIDE DEF t, b
  <2>2. t \in Seq(ALine) /\ b \in Seq(ALine) /\ Len(t) = 1 /\ Len(b) = 1
        /\ t[1] = think /\ b[1] = block
    BY <1>3 DEF t, b
  <2>3. /\ u \in Seq(ALine) /\ Len(u) = 2
        /\ \A i \in 1..2 : u[i] = IF i <= 1 THEN t[i] ELSE b[i - 1]
    BY <2>2, ConcatProperties
  <2> HIDE DEF u
  <2>4. u[1] = think /\ u[2] = block
    BY <2>2, <2>3
  <2>5. ASSUME NEW i \in 1..LeadLen(d)
        PROVE  \/ Lead(d)[i].kind = "think"
               \/ Lead(d)[i].kind = "block" /\ Lead(d)[i].index = 0
    <3>1. i = 1 \/ i = 2
      BY <2>1
    <3> QED BY <1>2, <2>1, <2>4, <3>1
  <2>6. Lead(d) \in Seq(ALine) /\ Len(Lead(d)) = LeadLen(d) /\ LeadLen(d) \in Nat
    BY <2>1, <2>3
  <2> QED BY <1>5, <2>5, <2>6
<1>6. CASE d \notin {"openai", "chatgpt", "anthropic"}
  <2>1. Lead(d) = <<>> /\ LeadLen(d) = 0
    BY <1>6 DEF Lead, LeadLen
  <2> QED BY <2>1, EmptySeq
<1> QED BY <1>4, <1>5, <1>6

LEMMA TextsFacts ==
  ASSUME NEW a \in AnAnswer
  PROVE  /\ Texts(a) \in Seq(ALine) /\ Len(Texts(a)) = Len(a.text) /\ Len(a.text) \in Nat
         /\ \A i \in 1..Len(a.text) : Texts(a)[i] = Line("text", 0, <<a.text[i]>>, <<>>)
<1>1. a.text \in Seq(Word)
  BY DEF AnAnswer, AText
<1>2. Len(a.text) \in Nat /\ DOMAIN a.text = 1..Len(a.text)
  BY <1>1, LenProperties
<1>3. ASSUME NEW i \in 1..Len(a.text)
      PROVE  Line("text", 0, <<a.text[i]>>, <<>>) \in ALine
  <2>1. <<a.text[i]>> \in AText
    BY <1>1, ElementOfSeq, Singleton DEF AText
  <2>2. "text" \in Kind /\ <<>> \in Seq(ACall)
    BY EmptySeq DEF Kind
  <2> QED BY <2>1, <2>2, LineType
<1>4. Texts(a) \in [1..Len(a.text) -> ALine]
  BY <1>2, <1>3 DEF Texts
<1>5. \A i \in 1..Len(a.text) : Texts(a)[i] = Line("text", 0, <<a.text[i]>>, <<>>)
  BY <1>2 DEF Texts
<1> QED BY <1>2, <1>4, <1>5, FunctionIsSeq

\* Line p of the body of a wire, where the calls come whole.
WholeLine(d, a, p) ==
  IF d = "ollama" THEN Line("calls", 0, <<>>, a.calls)
  ELSE Line("call", 0, <<>>, <<a.calls[p]>>)

LEMMA BodyFacts ==
  ASSUME NEW d \in Dialect, NEW a \in AnAnswer
  PROVE  /\ Body(d, a) \in Seq(ALine) /\ Len(Body(d, a)) = BodyLen(d, a)
         /\ BodyLen(d, a) \in Nat
         /\ d \notin InFragments =>
              \A p \in 1..BodyLen(d, a) : Body(d, a)[p] = WholeLine(d, a, p)
<1>1. a.calls \in Seq(ACall) /\ Len(a.calls) \in Nat /\ DOMAIN a.calls = 1..Len(a.calls)
  <2>1. a.calls \in Seq(ACall)
    BY DEF AnAnswer
  <2> QED BY <2>1, LenProperties
<1>2. "call" \in Kind /\ "calls" \in Kind /\ <<>> \in AText
  BY EmptySeq DEF Kind, AText
<1>3. CASE d \in InFragments
  <2>1. First(d) \in Nat
    BY DEF First
  <2>2. FragmentsTo(a.calls, First(d), Len(a.calls), AllFragments(a, First(d)))
    BY <2>1, AllFragmentsFacts
  <2>3. Before(a.calls)[Len(a.calls)] \in Nat
    BY <1>1, BeforeFacts DEF BeforeTo
  <2>4. Body(d, a) = AllFragments(a, First(d)) /\ BodyLen(d, a) = Before(a.calls)[Len(a.calls)]
    BY <1>3 DEF Body, BodyLen, InFragments
  <2> QED BY <1>3, <2>2, <2>3, <2>4 DEF FragmentsTo
<1>4. CASE d = "ollama"
  <2> DEFINE l == Line("calls", 0, <<>>, a.calls)
  <2>1. l \in ALine
    BY <1>1, <1>2, LineType
  <2>2. Body(d, a) = <<l>> /\ BodyLen(d, a) = 1 /\ \A p \in 1..1 : p = 1 /\ WholeLine(d, a, p) = l
    BY <1>4 DEF Body, BodyLen, InFragments, WholeLine
  <2> HIDE DEF l
  <2> QED BY <2>1, <2>2, Singleton
<1>5. CASE d \notin InFragments /\ d # "ollama"
  <2>1. Body(d, a) = WholeCalls(a) /\ BodyLen(d, a) = Len(a.calls)
    BY <1>5 DEF Body, BodyLen
  <2>2. ASSUME NEW p \in 1..Len(a.calls)
        PROVE  Line("call", 0, <<>>, <<a.calls[p]>>) \in ALine
    <3>1. a.calls[p] \in ACall
      BY <1>1, ElementOfSeq
    <3>2. <<a.calls[p]>> \in Seq(ACall)
      BY <3>1, Singleton
    <3> QED BY <1>2, <3>2, LineType
  <2>3. WholeCalls(a) \in [1..Len(a.calls) -> ALine]
    BY <1>1, <2>2 DEF WholeCalls
  <2>4. \A p \in 1..Len(a.calls) : WholeCalls(a)[p] = WholeLine(d, a, p)
    BY <1>1, <1>5 DEF WholeCalls, WholeLine
  <2> QED BY <1>1, <2>1, <2>3, <2>4, FunctionIsSeq
<1> QED BY <1>3, <1>4, <1>5

LEMMA EndFacts ==
  ASSUME NEW d \in Dialect, NEW a \in AnAnswer, NEW r
  PROVE  EndLine(d, a, r) \in ALine
<1>1. a.calls \in Seq(ACall) /\ a.text \in AText
  BY DEF AnAnswer
<1>2. "completed" \in Kind /\ "usage" \in Kind /\ <<>> \in AText /\ <<>> \in Seq(ACall)
  BY EmptySeq DEF Kind, AText
<1>3. (IF r THEN a.text ELSE <<>>) \in AText /\ (IF r THEN a.calls ELSE <<>>) \in Seq(ACall)
  BY <1>1, <1>2
<1> QED BY <1>2, <1>3, LineType DEF EndLine

LEMMA WireFacts ==
  ASSUME NEW d \in Dialect, NEW a \in AnAnswer, NEW r
  PROVE  LET w == Wire(d, a, r)
             t == LeadLen(d) + Len(a.text)
         IN /\ w \in Seq(ALine) /\ Len(w) = WireLen(d, a) /\ WireLen(d, a) \in Nat \ {0}
            /\ \A i \in 1..LeadLen(d) : w[i] = Lead(d)[i]
            /\ \A i \in 1..Len(a.text) : w[LeadLen(d) + i] = Line("text", 0, <<a.text[i]>>, <<>>)
            /\ \A p \in 1..BodyLen(d, a) : w[t + p] = Body(d, a)[p]
            /\ w[WireLen(d, a)] = EndLine(d, a, r)
<1> DEFINE w == Wire(d, a, r)
           tail == <<EndLine(d, a, r)>>
<1>1. /\ Lead(d) \in Seq(ALine) /\ Len(Lead(d)) = LeadLen(d) /\ LeadLen(d) \in Nat
      /\ Texts(a) \in Seq(ALine) /\ Len(Texts(a)) = Len(a.text) /\ Len(a.text) \in Nat
      /\ \A i \in 1..Len(a.text) : Texts(a)[i] = Line("text", 0, <<a.text[i]>>, <<>>)
      /\ Body(d, a) \in Seq(ALine) /\ Len(Body(d, a)) = BodyLen(d, a) /\ BodyLen(d, a) \in Nat
  BY LeadFacts, TextsFacts, BodyFacts
<1>2. tail \in Seq(ALine) /\ Len(tail) = 1 /\ tail[1] = EndLine(d, a, r)
  BY EndFacts, Singleton
<1>3. w = Lead(d) \o Texts(a) \o Body(d, a) \o tail
  <2>1. CASE d = "openai"
    BY <2>1 DEF Wire, Lead, Body, EndLine, InFragments, First, Counts
  <2>2. CASE d = "anthropic"
    BY <2>2 DEF Wire, Lead, Body, EndLine, InFragments, First, Counts
  <2>3. CASE d \in {"gemini", "code_assist"}
    <3>1. w = Texts(a) \o WholeCalls(a) \o Counts
      BY <2>3 DEF Wire
    <3>2. Lead(d) = <<>> /\ Body(d, a) = WholeCalls(a) /\ tail = Counts
      BY <2>3 DEF Lead, Body, EndLine, InFragments, Counts
    <3>3. Lead(d) \o Texts(a) = Texts(a)
      BY <1>1, <3>2, ConcatEmptySeq
    <3> QED BY <3>1, <3>2, <3>3
  <2>4. CASE d = "ollama"
    <3>1. w = Texts(a) \o <<Line("calls", 0, <<>>, a.calls)>> \o Counts
      BY <2>4 DEF Wire
    <3>2. /\ Lead(d) = <<>> /\ Body(d, a) = <<Line("calls", 0, <<>>, a.calls)>>
          /\ tail = Counts
      BY <2>4 DEF Lead, Body, EndLine, InFragments, Counts
    <3>3. Lead(d) \o Texts(a) = Texts(a)
      BY <1>1, <3>2, ConcatEmptySeq
    <3> QED BY <3>1, <3>2, <3>3
  <2>5. CASE d = "chatgpt"
    BY <2>5 DEF Wire, Lead, Body, EndLine, InFragments, Completed
  <2> QED BY <2>1, <2>2, <2>3, <2>4, <2>5 DEF Dialect
<1> HIDE DEF w, tail
<1>4. /\ w \in Seq(ALine)
      /\ Len(w) = LeadLen(d) + Len(a.text) + BodyLen(d, a) + 1
      /\ \A i \in 1..LeadLen(d) : w[i] = Lead(d)[i]
      /\ \A i \in 1..Len(a.text) : w[LeadLen(d) + i] = Texts(a)[i]
      /\ \A i \in 1..BodyLen(d, a) : w[LeadLen(d) + Len(a.text) + i] = Body(d, a)[i]
      /\ \A i \in 1..1 : w[LeadLen(d) + Len(a.text) + BodyLen(d, a) + i] = tail[i]
  <2>1. /\ w \in Seq(ALine)
        /\ Len(w) = Len(Lead(d)) + Len(Texts(a)) + Len(Body(d, a)) + Len(tail)
        /\ \A i \in 1..Len(Lead(d)) : w[i] = Lead(d)[i]
        /\ \A i \in 1..Len(Texts(a)) : w[Len(Lead(d)) + i] = Texts(a)[i]
        /\ \A i \in 1..Len(Body(d, a)) :
             w[Len(Lead(d)) + Len(Texts(a)) + i] = Body(d, a)[i]
        /\ \A i \in 1..Len(tail) :
             w[Len(Lead(d)) + Len(Texts(a)) + Len(Body(d, a)) + i] = tail[i]
    <3>1. Lead(d) \in Seq(ALine) /\ Texts(a) \in Seq(ALine) /\ Body(d, a) \in Seq(ALine)
      BY <1>1
    <3>2. w \in Seq(ALine) /\ InParts(w, Lead(d), Texts(a), Body(d, a), tail)
      BY <1>2, <1>3, <3>1, FourParts
    <3> QED BY <3>2 DEF InParts
  <2>2. Len(Lead(d)) = LeadLen(d) /\ Len(Texts(a)) = Len(a.text) /\ Len(Body(d, a)) = BodyLen(d, a)
    BY <1>1
  <2> QED BY <1>2, <2>1, <2>2
<1>5. WireLen(d, a) = LeadLen(d) + Len(a.text) + BodyLen(d, a) + 1 /\ WireLen(d, a) \in Nat \ {0}
  BY <1>1 DEF WireLen
<1>6. w[WireLen(d, a)] = EndLine(d, a, r)
  BY <1>2, <1>4, <1>5, 1 \in 1..1
<1> QED BY <1>1, <1>4, <1>5, <1>6 DEF w

----------------------------------------------------------------------------
(* Folding one line *)

LEMMA LossyFacts ==
  ASSUME NEW t \in Seq(Word)
  PROVE  /\ LikeText(t, t)
         /\ Lossy(t) \in Seq(Word) /\ LikeText(Lossy(t), t)
<1> DEFINE x == Lossy(t)
<1>1. Len(t) \in Nat /\ DOMAIN t = 1..Len(t) /\ \A i \in 1..Len(t) : t[i] \in Word
  BY LenProperties, ElementOfSeq
<1>2. LikeText(t, t)
  BY <1>1 DEF LikeText, Like
<1>3. /\ x = [i \in 1..Len(t) |-> x[i]]
      /\ \A i \in 1..Len(t) : x[i] \in Word /\ Like(x[i], t[i])
  BY <1>1 DEF Lossy, Word, Like
<1> HIDE DEF x
<1>4. x \in [1..Len(t) -> Word]
  BY <1>3
<1>5. x \in Seq(Word) /\ Len(x) = Len(t) /\ DOMAIN x = 1..Len(t)
  BY <1>1, <1>4, FunctionIsSeq
<1>6. LikeText(x, t)
  BY <1>3, <1>5 DEF LikeText
<1> QED BY <1>2, <1>5, <1>6 DEF x

LEMMA LossyCallsFacts ==
  ASSUME NEW s \in Seq(ACall)
  PROVE  /\ LikeCalls(s, s)
         /\ LossyCalls(s) \in Seq(ACall) /\ LikeCalls(LossyCalls(s), s)
<1> DEFINE x == LossyCalls(s)
<1>1. Len(s) \in Nat /\ DOMAIN s = 1..Len(s) /\ \A i \in 1..Len(s) : s[i] \in ACall
  BY LenProperties, ElementOfSeq
<1>2. \A i \in 1..Len(s) :
        /\ s[i].id \in Nat \X Nat /\ s[i].name \in Word /\ LikeText(s[i].args, s[i].args)
        /\ Lossy(s[i].args) \in Seq(Word) /\ LikeText(Lossy(s[i].args), s[i].args)
  <2> SUFFICES ASSUME NEW i \in 1..Len(s)
               PROVE  /\ s[i].id \in Nat \X Nat /\ s[i].name \in Word
                      /\ LikeText(s[i].args, s[i].args) /\ Lossy(s[i].args) \in Seq(Word)
                      /\ LikeText(Lossy(s[i].args), s[i].args)
    OBVIOUS
  <2>1. s[i].id \in Nat \X Nat /\ s[i].name \in Word /\ s[i].args \in Seq(Word)
    BY <1>1 DEF ACall
  <2> QED BY <2>1, LossyFacts
<1>3. LikeCalls(s, s)
  BY <1>1, <1>2 DEF LikeCalls, LikeCall
<1>4. ASSUME NEW i \in 1..Len(s)
      PROVE  x[i] \in ACall /\ LikeCall(x[i], s[i])
  <2>1. x[i] = Call(s[i].id, s[i].name, Lossy(s[i].args))
    BY <1>1 DEF LossyCalls
  <2>2. x[i].id = s[i].id /\ x[i].name = s[i].name /\ x[i].args = Lossy(s[i].args)
    BY <2>1 DEF Call
  <2>3. x[i] \in ACall
    BY <1>2, <2>1, CallType
  <2> HIDE DEF x
  <2> QED BY <1>2, <2>2, <2>3 DEF LikeCall
<1>5. x = [i \in 1..Len(s) |-> x[i]]
  BY <1>1 DEF LossyCalls
<1> HIDE DEF x
<1>6. x \in [1..Len(s) -> ACall]
  BY <1>4, <1>5
<1>7. x \in Seq(ACall) /\ Len(x) = Len(s) /\ DOMAIN x = 1..Len(s)
  BY <1>1, <1>6, FunctionIsSeq
<1>8. LikeCalls(x, s)
  BY <1>4, <1>7 DEF LikeCalls
<1> QED BY <1>3, <1>7, <1>8 DEF x

\* A line of the wire is read, torn or not.
LEMMA ReadsFacts ==
  ASSUME NEW w \in ALine
  PROVE  Reads(w, w) /\ Reads(Torn(w), w)
<1> DEFINE t == Lossy(w.text)
           s == LossyCalls(w.calls)
           l == Torn(w)
<1>1. w.text \in Seq(Word) /\ w.calls \in Seq(ACall)
  BY DEF ALine, AText
<1>2. /\ LikeText(w.text, w.text) /\ t \in Seq(Word) /\ LikeText(t, w.text)
      /\ LikeCalls(w.calls, w.calls) /\ s \in Seq(ACall) /\ LikeCalls(s, w.calls)
  BY <1>1, LossyFacts, LossyCallsFacts
<1>3. Reads(w, w)
  BY <1>2 DEF Reads
<1>4. l = [w EXCEPT !.text = t, !.calls = s]
  BY DEF Torn
<1> HIDE DEF t, s, l
<1>5. /\ l \in ALine /\ l.kind = w.kind /\ l.index = w.index
      /\ l.text = t /\ l.calls = s
  BY <1>2, <1>4 DEF ALine, AText
<1> QED BY <1>2, <1>3, <1>5 DEF Reads, l

LEMMA OneElement ==
  ASSUME NEW S, NEW s \in Seq(S), Len(s) = 1
  PROVE  s[1] \in S /\ s = <<s[1]>> /\ 1 \in DOMAIN s
<1>1. DOMAIN s = 1..1 /\ s[1] \in S
  BY LenProperties, ElementOfSeq
<1> DEFINE u == <<s[1]>>
<1>2. u \in Seq(S) /\ Len(u) = 1 /\ u[1] = s[1]
  BY <1>1
<1>3. s = u
  <2> HIDE DEF u
  <2>1. \A i \in 1..1 : i = 1
    OBVIOUS
  <2> QED BY <1>2, <2>1, SeqEqual
<1>4. 1 \in DOMAIN s
  BY <1>1
<1> QED BY <1>1, <1>3, <1>4

\* A line that holds one call, and what is read of a call's fragments.
LEMMA OneCall ==
  ASSUME NEW l, NEW w, Reads(l, w), NEW e, w.calls = <<e>>
  PROVE  \E c \in ACall : l.calls = <<c>> /\ LikeCall(c, e)
<1>1. l.calls \in Seq(ACall) /\ LikeCalls(l.calls, <<e>>)
  BY DEF Reads, ALine
<1>2. Len(l.calls) = 1
  <2>1. Len(<<e>>) = 1
    OBVIOUS
  <2> QED BY <1>1, <2>1 DEF LikeCalls
<1>3. l.calls[1] \in ACall /\ l.calls = <<l.calls[1]>> /\ 1 \in DOMAIN l.calls
  BY <1>1, <1>2, OneElement
<1>4. LikeCall(l.calls[1], <<e>>[1])
  BY <1>1, <1>3 DEF LikeCalls
<1>5. <<e>>[1] = e
  OBVIOUS
<1> QED BY <1>3, <1>4, <1>5

LEMMA OneHead ==
  ASSUME NEW c \in ACall, NEW id, NEW name, LikeCall(c, Call(id, name, <<>>))
  PROVE  c = Call(id, name, <<>>)
<1>1. c.id = id /\ c.name = name /\ LikeText(c.args, <<>>)
  BY DEF LikeCall, Call
<1>2. c.args \in Seq(Word) /\ Len(c.args) = 0
  <2>1. Len(<<>>) = 0
    OBVIOUS
  <2> QED BY <1>1, <2>1 DEF LikeText, ACall
<1>3. c.args = <<>>
  BY <1>2, EmptySeq
<1> QED BY <1>1, <1>3 DEF ACall, Call

LEMMA OnePiece ==
  ASSUME NEW c \in ACall, NEW x, LikeCall(c, Call(NoId, "", <<x>>))
  PROVE  \E y \in Word : Like(y, x) /\ c = Call(NoId, "", <<y>>)
<1>1. c.id = NoId /\ c.name = "" /\ LikeText(c.args, <<x>>) /\ c.args \in Seq(Word)
  BY DEF LikeCall, Call, ACall
<1>2. Len(c.args) = 1
  <2>1. Len(<<x>>) = 1
    OBVIOUS
  <2> QED BY <1>1, <2>1 DEF LikeText
<1>3. c.args[1] \in Word /\ c.args = <<c.args[1]>> /\ 1 \in DOMAIN c.args
  BY <1>1, <1>2, OneElement
<1>4. Like(c.args[1], x)
  <2>1. <<x>>[1] = x
    OBVIOUS
  <2>2. \A i \in DOMAIN c.args : Like(c.args[i], <<x>>[i])
    BY <1>1 DEF LikeText
  <2> QED BY <1>3, <2>1, <2>2
<1>5. c = Call(NoId, "", <<c.args[1]>>)
  BY <1>1, <1>3 DEF ACall, Call
<1> QED BY <1>3, <1>4, <1>5

\* Where line k + 1 is.
FedTo(d, a, k, n, p) == TextsFed(d, a, k) = n /\ BodyFed(d, a, k) = p
InLead(d, a, k)    == k + 1 \in 1..LeadLen(d) /\ FedTo(d, a, k, 0, 0) /\ FedTo(d, a, k + 1, 0, 0)
AtText(d, a, k, i) == k + 1 = LeadLen(d) + i /\ FedTo(d, a, k, i - 1, 0) /\ FedTo(d, a, k + 1, i, 0)
AtBody(d, a, k, p) ==
  /\ k + 1 = LeadLen(d) + Len(a.text) + p
  /\ FedTo(d, a, k, Len(a.text), p - 1) /\ FedTo(d, a, k + 1, Len(a.text), p)
AtEnd(d, a, k) ==
  /\ k + 1 = WireLen(d, a)
  /\ FedTo(d, a, k, Len(a.text), BodyLen(d, a)) /\ FedTo(d, a, k + 1, Len(a.text), BodyLen(d, a))

LEMMA Regions ==
  ASSUME NEW d \in Dialect, NEW a \in AnAnswer, NEW k \in Nat, k < WireLen(d, a)
  PROVE  \/ InLead(d, a, k) /\ k + 1 # WireLen(d, a)
         \/ \E i \in 1..Len(a.text) : AtText(d, a, k, i) /\ k + 1 # WireLen(d, a)
         \/ \E p \in 1..BodyLen(d, a) : AtBody(d, a, k, p) /\ k + 1 # WireLen(d, a)
         \/ AtEnd(d, a, k)
<1> DEFINE lead == LeadLen(d)
           n == Len(a.text)
           m == BodyLen(d, a)
<1>1. lead \in Nat /\ n \in Nat /\ m \in Nat
  BY LeadFacts, TextsFacts, BodyFacts
<1>2. WireLen(d, a) = lead + n + m + 1
  BY DEF WireLen
<1> HIDE DEF lead, n, m
<1>3. ASSUME NEW x \in Nat, NEW i \in Nat, NEW p \in Nat,
             IF x <= lead THEN i = 0 ELSE i = IF x - lead <= n THEN x - lead ELSE n,
             IF x <= lead + n THEN p = 0
             ELSE p = IF x - lead - n <= m THEN x - lead - n ELSE m
      PROVE  FedTo(d, a, x, i, p)
  <2>1. Within(x - lead, n) = i
    BY <1>1, <1>3 DEF Within
  <2>2. Within(x - lead - n, m) = p
    BY <1>1, <1>3 DEF Within
  <2> QED BY <2>1, <2>2 DEF FedTo, TextsFed, BodyFed, lead, n, m
<1>4. CASE k + 1 <= lead
  <2>1. FedTo(d, a, k, 0, 0) /\ FedTo(d, a, k + 1, 0, 0)
    BY <1>1, <1>3, <1>4
  <2> QED BY <1>1, <1>2, <1>4, <2>1 DEF InLead, lead
<1>5. CASE k + 1 > lead /\ k + 1 <= lead + n
  <2> DEFINE i == k + 1 - lead
  <2>1. i \in 1..n /\ k + 1 = lead + i /\ k + 1 # WireLen(d, a)
    BY <1>1, <1>2, <1>5
  <2>2. FedTo(d, a, k, i - 1, 0) /\ FedTo(d, a, k + 1, i, 0)
    BY <1>1, <1>3, <1>5
  <2> HIDE DEF i
  <2> QED BY <2>1, <2>2 DEF AtText, lead, n
<1>6. CASE k + 1 > lead + n /\ k + 1 <= lead + n + m
  <2> DEFINE p == k + 1 - lead - n
  <2>1. p \in 1..m /\ k + 1 = lead + n + p /\ k + 1 # WireLen(d, a)
    BY <1>1, <1>2, <1>6
  <2>2. FedTo(d, a, k, n, p - 1) /\ FedTo(d, a, k + 1, n, p)
    BY <1>1, <1>3, <1>6
  <2> HIDE DEF p
  <2> QED BY <2>1, <2>2 DEF AtBody, lead, n, m
<1>7. CASE k + 1 = lead + n + m + 1
  <2>1. FedTo(d, a, k, n, m) /\ FedTo(d, a, k + 1, n, m)
    BY <1>1, <1>3, <1>7
  <2> QED BY <1>2, <1>7, <2>1 DEF AtEnd, n, m
<1> QED BY <1>1, <1>2, <1>4, <1>5, <1>6, <1>7

LEMMA GrownFacts ==
  ASSUME NEW slots \in Seq(ACall), NEW index \in Nat
  PROVE  /\ Grown(slots, index) \in Seq(ACall)
         /\ Len(Grown(slots, index)) = IF Len(slots) > index THEN Len(slots) ELSE index + 1
         /\ \A i \in 1..Len(Grown(slots, index)) :
              Grown(slots, index)[i] = IF i <= Len(slots) THEN slots[i] ELSE NoCall
<1> DEFINE n == IF Len(slots) > index THEN Len(slots) ELSE index + 1
           g == [i \in 1..n |-> IF i <= Len(slots) THEN slots[i] ELSE NoCall]
<1>1. NoCall \in ACall
  <2>1. NoId \in Nat \X Nat /\ "" \in Word /\ <<>> \in Seq(Word)
    BY EmptySeq DEF NoId, Word
  <2> QED BY <2>1, CallType DEF NoCall
<1>2. Len(slots) \in Nat /\ n \in Nat
  BY LenProperties
<1>3. g \in [1..n -> ACall]
  <2>1. ASSUME NEW i \in 1..n PROVE (IF i <= Len(slots) THEN slots[i] ELSE NoCall) \in ACall
    <3>1. CASE i <= Len(slots)
      BY <1>2, <3>1, ElementOfSeq
    <3>2. CASE ~(i <= Len(slots))
      BY <1>1, <3>2
    <3> QED BY <3>1, <3>2
  <2> QED BY <2>1
<1>4. \A i \in 1..n : g[i] = IF i <= Len(slots) THEN slots[i] ELSE NoCall
  OBVIOUS
<1>5. Grown(slots, index) = g
  BY DEF Grown
<1> HIDE DEF g, n
<1>6. g \in Seq(ACall) /\ Len(g) = n
  BY <1>2, <1>3, FunctionIsSeq
<1> QED BY <1>4, <1>5, <1>6 DEF n

\* A line that is neither text nor a call.
Unmoved(f, g) ==
  /\ g \in AFold
  /\ g.text = f.text /\ g.out = f.out /\ g.full = f.full /\ g.calls = f.calls
  /\ g.usage = f.usage /\ g.final = f.final /\ g.finalCalls = f.finalCalls

LEMMA LeadStep ==
  ASSUME NEW d \in {"openai", "chatgpt", "anthropic"}, NEW f \in AFold, NEW l \in ALine,
         \/ l.kind = "think"
         \/ d = "anthropic" /\ l.kind = "block" /\ l.index = 0
  PROVE  /\ Unmoved(f, Feed(d, f, l))
         /\ \/ Feed(d, f, l).slots = f.slots
            \/ d = "anthropic" /\ Feed(d, f, l).slots = Grown(f.slots, 0)
<1> DEFINE g == Feed(d, f, l)
<1>1. CASE l.kind = "think"
  <2>1. g = AddThought(f, l)
    BY <1>1 DEF Feed, OpenAIFeed, ChatGptFeed, AnthropicFeed
  <2>2. f.thoughts \o l.text \in AText
    <3>1. f.thoughts \in Seq(Word) /\ l.text \in Seq(Word)
      BY DEF AFold, ALine, AText
    <3> QED BY <3>1, ConcatProperties DEF AText
  <2> DEFINE t == f.thoughts \o l.text
  <2>3. g = [f EXCEPT !.thoughts = t]
    BY <2>1 DEF AddThought
  <2> HIDE DEF t, g
  <2>4. Unmoved(f, g) /\ g.slots = f.slots
    BY <2>2, <2>3 DEF Unmoved, AFold, t
  <2> QED BY <2>4 DEF g
<1>2. CASE d = "anthropic" /\ l.kind = "block" /\ l.index = 0
  <2> DEFINE s == Grown(f.slots, 0)
  <2>1. g = [f EXCEPT !.slots = s]
    BY <1>2 DEF Feed, AnthropicFeed
  <2>2. s \in Seq(ACall)
    <3>1. f.slots \in Seq(ACall)
      BY DEF AFold
    <3> QED BY <3>1, GrownFacts
  <2> HIDE DEF s, g
  <2>3. Unmoved(f, g) /\ g.slots = s
    BY <2>1, <2>2 DEF Unmoved, AFold
  <2> QED BY <1>2, <2>3 DEF g, s
<1> QED BY <1>1, <1>2

\* A line of text.
LEMMA TextStep ==
  ASSUME NEW d \in Dialect, NEW a \in AnAnswer, MaxText \in Nat,
         NEW i \in 1..Len(a.text), NEW f \in AFold, TextAssembled(d, a, i - 1, f),
         NEW l, Reads(l, Line("text", 0, <<a.text[i]>>, <<>>))
  PROVE  /\ Feed(d, f, l) \in AFold /\ TextAssembled(d, a, i, Feed(d, f, l))
         /\ Feed(d, f, l).slots = f.slots /\ Feed(d, f, l).calls = f.calls
         /\ Feed(d, f, l).usage = f.usage
         /\ Feed(d, f, l).final = f.final /\ Feed(d, f, l).finalCalls = f.finalCalls
<1> DEFINE g == Feed(d, f, l)
           t == f.text \o l.text
<1>1. /\ l \in ALine /\ l.kind = "text" /\ Len(l.text) = 1 /\ l.text \in Seq(Word)
      /\ Like(l.text[1], a.text[i])
  <2>1. Line("text", 0, <<a.text[i]>>, <<>>).kind = "text"
        /\ Line("text", 0, <<a.text[i]>>, <<>>).text = <<a.text[i]>>
    BY DEF Line
  <2>2. l \in ALine /\ l.kind = "text" /\ LikeText(l.text, <<a.text[i]>>)
    BY <2>1 DEF Reads
  <2>3. l.text \in Seq(Word)
    BY <2>2 DEF ALine, AText
  <2>4. Len(l.text) = 1 /\ DOMAIN l.text = 1..1
    BY <2>2, <2>3, LenProperties DEF LikeText
  <2> QED BY <2>2, <2>3, <2>4 DEF LikeText
<1>2. f.text \in Seq(Word) /\ Len(f.text) \in Nat /\ f.out = f.text
  <2>1. f.text \in Seq(Word) /\ f.out = f.text
    BY DEF AFold, AText, TextAssembled
  <2> QED BY <2>1, LenProperties
<1>3. /\ t \in Seq(Word) /\ Len(t) = Len(f.text) + 1
      /\ \A x \in 1..(Len(f.text) + 1) :
           t[x] = IF x <= Len(f.text) THEN f.text[x] ELSE l.text[x - Len(f.text)]
  <2>1. f.text \in Seq(Word) /\ l.text \in Seq(Word)
    BY <1>1, <1>2
  <2>2. /\ t \in Seq(Word) /\ Len(t) = Len(f.text) + Len(l.text)
        /\ \A x \in 1..(Len(f.text) + Len(l.text)) :
             t[x] = IF x <= Len(f.text) THEN f.text[x] ELSE l.text[x - Len(f.text)]
    BY <2>1, ConcatProperties
  <2> HIDE DEF t
  <2> QED BY <1>1, <2>2
<1>4. /\ f.full <=> d = "openai" /\ i - 1 > MaxText
      /\ Len(f.text) = IF f.full THEN MaxText ELSE i - 1
      /\ \A x \in 1..Len(f.text) : Like(f.text[x], a.text[x])
  BY DEF TextAssembled
<1>5. CASE d = "openai" /\ Len(f.text) >= MaxText
  <2>1. g = [f EXCEPT !.full = TRUE]
    BY <1>1, <1>5 DEF Feed, OpenAIFeed
  <2> HIDE DEF g
  <2>2. /\ g \in AFold /\ g.full /\ g.text = f.text /\ g.out = f.out
        /\ g.slots = f.slots /\ g.calls = f.calls /\ g.usage = f.usage
        /\ g.final = f.final /\ g.finalCalls = f.finalCalls
    BY <2>1 DEF AFold
  <2>3. i > MaxText /\ Len(g.text) = MaxText
    BY <1>4, <1>5, <2>2
  <2>4. TextAssembled(d, a, i, g)
    BY <1>2, <1>4, <1>5, <2>2, <2>3 DEF TextAssembled
  <2> QED BY <2>2, <2>4 DEF g
<1>6. CASE ~(d = "openai" /\ Len(f.text) >= MaxText)
  <2>1. g = [f EXCEPT !.text = t, !.out = t]
    <3>1. g = AddText(f, l)
      <4>1. CASE d = "openai"
        <5>1. Len(f.text) < MaxText
          BY <1>2, <1>6, <4>1
        <5> QED BY <1>1, <1>6, <4>1, <5>1 DEF Feed, OpenAIFeed
      <4>2. CASE d # "openai"
        BY <1>1, <4>2 DEF Feed, AnthropicFeed, GeminiFeed, OllamaFeed, ChatGptFeed, Dialect
      <4> QED BY <4>1, <4>2
    <3> QED BY <1>2, <3>1 DEF AddText
  <2> HIDE DEF g, t
  <2>2. /\ g \in AFold /\ g.full = f.full /\ g.text = t /\ g.out = t
        /\ g.slots = f.slots /\ g.calls = f.calls /\ g.usage = f.usage
        /\ g.final = f.final /\ g.finalCalls = f.finalCalls
    BY <1>3, <2>1 DEF AFold, AText
  <2>3. ~f.full /\ Len(f.text) = i - 1 /\ Len(t) = i /\ ~(d = "openai" /\ i > MaxText)
    BY <1>2, <1>3, <1>4, <1>6
  <2>4. ASSUME NEW x \in 1..i
        PROVE  Like(t[x], a.text[x])
    <3>1. CASE x <= i - 1
      BY <1>3, <1>4, <2>3, <3>1
    <3>2. CASE x = i
      <4>1. t[x] = l.text[1]
        BY <1>3, <2>3, <3>2
      <4> QED BY <1>1, <3>2, <4>1
    <3> QED BY <3>1, <3>2
  <2>5. TextAssembled(d, a, i, g)
    BY <2>2, <2>3, <2>4 DEF TextAssembled
  <2> QED BY <2>2, <2>5 DEF g
<1> QED BY <1>5, <1>6

\* The first fragment of a call makes a slot, the others add to it.
LEMMA HeadedFacts ==
  ASSUME NEW slots \in Seq(ACall), NEW index \in Nat, Len(slots) <= index, NEW c \in ACall
  PROVE  /\ Headed(slots, index, c) \in Seq(ACall) /\ Len(Headed(slots, index, c)) = index + 1
         /\ Headed(slots, index, c)[index + 1] = Call(c.id, c.name, <<>>)
         /\ \A x \in 1..index :
              Headed(slots, index, c)[x] = IF x <= Len(slots) THEN slots[x] ELSE NoCall
<1> DEFINE g == Grown(slots, index)
           e == Call(c.id, c.name, <<>>)
<1>1. Len(slots) \in Nat
  BY LenProperties
<1>2. /\ g \in Seq(ACall) /\ Len(g) = index + 1
      /\ \A i \in 1..(index + 1) : g[i] = IF i <= Len(slots) THEN slots[i] ELSE NoCall
  BY <1>1, GrownFacts
<1>3. g[index + 1] = NoCall /\ index + 1 \in 1..Len(g)
  BY <1>1, <1>2
<1>4. e \in ACall
  <2>1. c.id \in Nat \X Nat /\ c.name \in Word /\ <<>> \in Seq(Word)
    BY EmptySeq DEF ACall
  <2> QED BY <2>1, CallType
<1> HIDE DEF g
<1>5. Call(c.id, c.name, g[index + 1].args) = e
  <2>1. NoCall.args = <<>>
    BY DEF NoCall, Call
  <2> QED BY <1>3, <2>1
<1> HIDE DEF e
<1>6. Headed(slots, index, c) = [g EXCEPT ![index + 1] = e]
  BY <1>5 DEF Headed, g
<1>7. /\ Headed(slots, index, c) \in Seq(ACall)
      /\ Len(Headed(slots, index, c)) = Len(g)
      /\ \A j \in 1..Len(g) : Headed(slots, index, c)[j] = IF j = index + 1 THEN e ELSE g[j]
  BY <1>2, <1>3, <1>4, <1>6, ExceptSeq
<1> QED BY <1>2, <1>3, <1>7 DEF e

LEMMA AddedFacts ==
  ASSUME NEW slots \in Seq(ACall), NEW index \in Nat, Len(slots) = index + 1, NEW c \in ACall
  PROVE  /\ Added(slots, index, c) \in Seq(ACall) /\ Len(Added(slots, index, c)) = index + 1
         /\ Added(slots, index, c)[index + 1]
              = Call(slots[index + 1].id, slots[index + 1].name,
                     slots[index + 1].args \o c.args)
         /\ \A x \in 1..index : Added(slots, index, c)[x] = slots[x]
<1> DEFINE g == Grown(slots, index)
           args == slots[index + 1].args \o c.args
           e == Call(slots[index + 1].id, slots[index + 1].name, args)
<1>1. /\ g \in Seq(ACall) /\ Len(g) = index + 1
      /\ \A i \in 1..(index + 1) : g[i] = slots[i]
  <2>1. Len(slots) > index
    OBVIOUS
  <2> QED BY <2>1, GrownFacts
<1>2. g[index + 1] = slots[index + 1] /\ index + 1 \in 1..Len(g)
  BY <1>1
<1>3. slots[index + 1] \in ACall
  BY <1>1, <1>2, ElementOfSeq
<1>4. args \in Seq(Word)
  <2>1. slots[index + 1].args \in Seq(Word) /\ c.args \in Seq(Word)
    BY <1>3 DEF ACall
  <2> QED BY <2>1, ConcatProperties
<1> HIDE DEF g
<1>5. Added(slots, index, c) = [g EXCEPT ![index + 1] = e]
  BY <1>2 DEF Added, g
<1> HIDE DEF args
<1>6. e \in ACall
  BY <1>3, <1>4, CallType DEF ACall
<1> HIDE DEF e
<1>7. /\ Added(slots, index, c) \in Seq(ACall)
      /\ Len(Added(slots, index, c)) = Len(g)
      /\ \A j \in 1..Len(g) : Added(slots, index, c)[j] = IF j = index + 1 THEN e ELSE g[j]
  BY <1>1, <1>2, <1>5, <1>6, ExceptSeq
<1>8. \A x \in 1..index : Added(slots, index, c)[x] = slots[x]
  BY <1>1, <1>7
<1> QED BY <1>1, <1>2, <1>7, <1>8 DEF e, args

LEMMA CallFacts ==
  ASSUME NEW a \in AnAnswer
  PROVE  /\ a.calls \in Seq(ACall) /\ Len(a.calls) \in Nat
         /\ \A i \in 1..Len(a.calls) :
              a.calls[i] \in ACall /\ a.calls[i].args \in Seq(Word) /\ Len(a.calls[i].args) \in Nat
<1>1. a.calls \in Seq(ACall)
  BY DEF AnAnswer
<1>2. ASSUME NEW i \in 1..Len(a.calls)
      PROVE  a.calls[i] \in ACall /\ a.calls[i].args \in Seq(Word)
  <2>1. a.calls[i] \in ACall
    BY <1>1, ElementOfSeq
  <2> QED BY <2>1 DEF ACall
<1> QED BY <1>1, <1>2, LenProperties

\* i calls have come whole.
SlotsWhole(d, a, i, slots) ==
  \/ i = 0 /\ Len(slots) <= First(d)
  \/ i > 0 /\ SlotsCut(d, a, i, Len(a.calls[i].args), slots)

\* The next fragment starts a call or continues the last one.
LEMMA NextFragment ==
  ASSUME NEW d \in InFragments, NEW a \in AnAnswer, NEW p \in 1..BodyLen(d, a), NEW slots,
         SlotsAssembled(d, a, p - 1, slots)
  PROVE  \/ \E i \in 0..(Len(a.calls) - 1) :
              /\ p = Before(a.calls)[i] + 1 /\ SlotsWhole(d, a, i, slots)
              /\ Body(d, a)[p] = HeadLine(a.calls[i + 1], First(d) + i)
         \/ \E i \in 1..Len(a.calls) : \E q \in 1..Len(a.calls[i].args) :
              /\ p = Before(a.calls)[i - 1] + 1 + q /\ SlotsCut(d, a, i, q - 1, slots)
              /\ Body(d, a)[p] = ArgsLine(a.calls[i], First(d) + i - 1, q)
<1> DEFINE at == Before(a.calls)
           m  == Len(a.calls)
<1>1. /\ m \in Nat /\ at[0] = 0
      /\ \A i \in 1..m : at[i] = at[i - 1] + 1 + Len(a.calls[i].args)
      /\ \A i \in 0..m : at[i] \in Nat
  <2>1. a.calls \in Seq(ACall) /\ Len(a.calls) \in Nat
    BY CallFacts
  <2>2. BeforeTo(a.calls, m, at)
    BY <2>1, BeforeFacts
  <2> HIDE DEF at
  <2>3. at \in [0..m -> Nat] /\ \A i \in 0..m : at[i] = IF i = 0 THEN 0 ELSE at[i - 1] + 1 + Len(a.calls[i].args)
    BY <2>2 DEF BeforeTo
  <2>4. at[0] = 0
    BY <2>1, <2>3
  <2>5. \A i \in 1..m : at[i] = at[i - 1] + 1 + Len(a.calls[i].args)
    BY <2>1, <2>3
  <2> QED BY <2>1, <2>3, <2>4, <2>5
<1>2. /\ BodyLen(d, a) = at[m]
      /\ \A i \in 1..m :
           /\ Body(d, a)[at[i - 1] + 1] = HeadLine(a.calls[i], First(d) + i - 1)
           /\ \A q \in 1..Len(a.calls[i].args) :
                Body(d, a)[at[i - 1] + 1 + q] = ArgsLine(a.calls[i], First(d) + i - 1, q)
  <2>1. First(d) \in Nat
    BY DEF First
  <2>2. FragmentsTo(a.calls, First(d), m, AllFragments(a, First(d)))
    BY <2>1, AllFragmentsFacts
  <2>3. Body(d, a) = AllFragments(a, First(d)) /\ BodyLen(d, a) = at[m]
    BY DEF Body, BodyLen, InFragments
  <2> QED BY <2>2, <2>3 DEF FragmentsTo
<1>3. p \in Nat /\ p >= 1 /\ p <= at[m] /\ at[m] \in Nat /\ First(d) \in Nat
  BY <1>1, <1>2 DEF First
<1> HIDE DEF at, m
<1>4. ASSUME NEW i \in 0..(m - 1), p = at[i] + 1
      PROVE  Body(d, a)[p] = HeadLine(a.calls[i + 1], First(d) + i)
  <2>1. i + 1 \in 1..m /\ (i + 1) - 1 = i /\ First(d) + (i + 1) - 1 = First(d) + i
    BY <1>1, <1>3
  <2> QED BY <1>2, <1>4, <2>1
<1>5. CASE p - 1 = 0 /\ Len(slots) <= First(d)
  <2>1. m # 0
    BY <1>1, <1>3, <1>5
  <2>2. 0 \in 0..(m - 1) /\ p = at[0] + 1
    BY <1>1, <1>3, <1>5, <2>1
  <2> QED BY <1>4, <1>5, <2>2 DEF SlotsWhole, at, m
<1>6. ASSUME NEW i \in 1..m, NEW q \in 0..Len(a.calls[i].args),
             p - 1 = at[i - 1] + 1 + q, SlotsCut(d, a, i, q, slots)
      PROVE  \/ /\ i \in 0..(m - 1) /\ p = at[i] + 1 /\ SlotsWhole(d, a, i, slots)
             \/ /\ q + 1 \in 1..Len(a.calls[i].args) /\ p = at[i - 1] + 1 + (q + 1)
                /\ SlotsCut(d, a, i, (q + 1) - 1, slots)
                /\ Body(d, a)[p] = ArgsLine(a.calls[i], First(d) + i - 1, q + 1)
  <2>1. Len(a.calls[i].args) \in Nat /\ i - 1 \in 0..m /\ at[i - 1] \in Nat
    BY <1>1, CallFacts DEF m
  <2>2. at[i] = at[i - 1] + 1 + Len(a.calls[i].args)
    BY <1>1
  <2>3. CASE q = Len(a.calls[i].args)
    <3>1. p = at[i] + 1
      BY <1>3, <1>6, <2>1, <2>2, <2>3
    <3>2. i # m
      BY <1>3, <2>1, <2>2, <3>1, SMTT(60)
    <3>3. i \in 0..(m - 1)
      BY <1>1, <3>2
    <3> QED BY <1>6, <2>3, <3>1, <3>3 DEF SlotsWhole
  <2>4. CASE q # Len(a.calls[i].args)
    <3>1. q + 1 \in 1..Len(a.calls[i].args) /\ (q + 1) - 1 = q
      BY <2>1, <2>4
    <3>2. p = at[i - 1] + 1 + (q + 1)
      <4>1. p - 1 = at[i - 1] + 1 + q
        BY <1>6
      <4> QED BY <1>3, <2>1, <4>1
    <3> QED BY <1>2, <1>6, <3>1, <3>2
  <2> QED BY <2>3, <2>4
<1>7. CASE \E i \in 1..m : \E q \in 0..Len(a.calls[i].args) :
             p - 1 = at[i - 1] + 1 + q /\ SlotsCut(d, a, i, q, slots)
  <2>a. PICK i \in 1..m : \E q \in 0..Len(a.calls[i].args) :
          p - 1 = at[i - 1] + 1 + q /\ SlotsCut(d, a, i, q, slots)
    BY <1>7
  <2>1. PICK q \in 0..Len(a.calls[i].args) :
          p - 1 = at[i - 1] + 1 + q /\ SlotsCut(d, a, i, q, slots)
    BY <2>a
  <2>2. CASE i \in 0..(m - 1) /\ p = at[i] + 1 /\ SlotsWhole(d, a, i, slots)
    BY <1>4, <2>2 DEF at, m
  <2>3. CASE /\ q + 1 \in 1..Len(a.calls[i].args) /\ p = at[i - 1] + 1 + (q + 1)
             /\ SlotsCut(d, a, i, (q + 1) - 1, slots)
             /\ Body(d, a)[p] = ArgsLine(a.calls[i], First(d) + i - 1, q + 1)
    <3> DEFINE x == q + 1
    <3>1. /\ x \in 1..Len(a.calls[i].args) /\ p = at[i - 1] + 1 + x
          /\ SlotsCut(d, a, i, x - 1, slots)
          /\ Body(d, a)[p] = ArgsLine(a.calls[i], First(d) + i - 1, x)
      BY <2>3
    <3> HIDE DEF x
    <3> QED BY <3>1 DEF at, m
  <2> QED BY <1>6, <2>1, <2>2, <2>3
<1>8. \/ p - 1 = 0 /\ Len(slots) <= First(d)
      \/ \E i \in 1..m : \E q \in 0..Len(a.calls[i].args) :
           p - 1 = at[i - 1] + 1 + q /\ SlotsCut(d, a, i, q, slots)
  BY DEF SlotsAssembled, at, m
<1> QED BY <1>5, <1>7, <1>8

\* What a fragment does to the slots; OpenAI's has no slot beyond MaxCalls.
LEMMA FragmentFeed ==
  ASSUME NEW d \in InFragments, NEW f \in AFold, NEW index \in Nat, NEW c \in ACall,
         NEW l \in ALine, l.index = index, l.calls = <<c>>, MaxCalls \in Nat
  PROVE  /\ l.kind = "head" =>
              Feed(d, f, l) = IF d = "openai" /\ index >= MaxCalls THEN f
                              ELSE [f EXCEPT !.slots = Headed(f.slots, index, c)]
         /\ l.kind = "args" =>
              Feed(d, f, l) = IF d = "openai" /\ index >= MaxCalls THEN f
                              ELSE [f EXCEPT !.slots = Added(f.slots, index, c)]
<1>1. l.calls[1] = c
  OBVIOUS
<1>2. /\ AddHead(f, l) = [f EXCEPT !.slots = Headed(f.slots, index, c)]
      /\ AddArgs(f, l) = [f EXCEPT !.slots = Added(f.slots, index, c)]
  BY <1>1 DEF AddHead, AddArgs
<1>3. CASE d = "openai"
  <2>1. index < MaxCalls <=> ~(index >= MaxCalls)
    OBVIOUS
  <2>2. Feed(d, f, l) = OpenAIFeed(f, l)
    BY <1>3 DEF Feed
  <2>3. l.kind = "head" => OpenAIFeed(f, l) = IF index < MaxCalls THEN AddHead(f, l) ELSE f
    BY DEF OpenAIFeed
  <2>4. l.kind = "args" => OpenAIFeed(f, l) = IF index < MaxCalls THEN AddArgs(f, l) ELSE f
    BY DEF OpenAIFeed
  <2> QED BY <1>2, <1>3, <2>1, <2>2, <2>3, <2>4
<1>4. CASE d = "anthropic"
  BY <1>2, <1>4 DEF Feed, AnthropicFeed
<1> QED BY <1>3, <1>4 DEF InFragments

\* Only the slots have changed.
SlotsOnly(f, g) == Unmoved(f, g) /\ g.thoughts = f.thoughts

LEMMA SlotsStep ==
  ASSUME NEW f \in AFold, NEW slots \in Seq(ACall), NEW g, g = [f EXCEPT !.slots = slots]
  PROVE  SlotsOnly(f, g) /\ g.slots = slots
BY DEF AFold, SlotsOnly, Unmoved

LEMMA WholeIsCut ==
  ASSUME NEW d \in InFragments, NEW a \in AnAnswer, MaxCalls \in Nat,
         NEW i \in 0..(Len(a.calls) - 1), NEW slots \in Seq(ACall), SlotsWhole(d, a, i, slots)
  PROVE  /\ d = "openai" /\ i >= MaxCalls => Len(slots) = MaxCalls
         /\ ~(d = "openai" /\ i >= MaxCalls) =>
              Len(slots) <= First(d) + i /\ (i > 0 => Len(slots) = First(d) + i)
         /\ \A j \in 1..(Len(slots) - First(d)) :
              j <= i /\ PartOf(slots[First(d) + j], a.calls[j], Len(a.calls[j].args))
<1>1. Len(slots) \in Nat /\ First(d) \in {0, 1} /\ (d = "openai" => First(d) = 0)
  BY LenProperties DEF First
<1>2. CASE i = 0
  BY <1>1, <1>2 DEF SlotsWhole
<1>3. CASE i > 0
  <2>1. /\ Len(slots) = Slots(d, i)
        /\ \A j \in 1..(Len(slots) - First(d)) :
             PartOf(slots[First(d) + j], a.calls[j],
                    IF j < i THEN Len(a.calls[j].args) ELSE Len(a.calls[i].args))
    BY <1>3 DEF SlotsWhole, SlotsCut
  <2>2. Len(slots) = IF d = "openai" /\ i > MaxCalls THEN MaxCalls ELSE First(d) + i
    BY <2>1 DEF Slots
  <2>3. Len(slots) - First(d) <= i
    BY <1>1, <2>2
  <2>4. ASSUME NEW j \in 1..(Len(slots) - First(d))
        PROVE  j <= i /\ PartOf(slots[First(d) + j], a.calls[j], Len(a.calls[j].args))
    <3>1. j < i \/ j = i
      BY <1>1, <2>3
    <3> QED BY <2>1, <2>3, <3>1
  <2> QED BY <1>1, <1>3, <2>2, <2>4
<1> QED BY <1>2, <1>3

LEMMA HeadStep ==
  ASSUME NEW d \in InFragments, NEW a \in AnAnswer, MaxCalls \in Nat,
         NEW i \in 0..(Len(a.calls) - 1), NEW f \in AFold,
         TextBlock(d, f.slots), SlotsWhole(d, a, i, f.slots),
         NEW l, Reads(l, HeadLine(a.calls[i + 1], First(d) + i))
  PROVE  /\ Unmoved(f, Feed(d, f, l)) /\ TextBlock(d, Feed(d, f, l).slots)
         /\ SlotsCut(d, a, i + 1, 0, Feed(d, f, l).slots)
<1> DEFINE g == Feed(d, f, l)
           call == a.calls[i + 1]
           c == Call(call.id, call.name, <<>>)
           index == First(d) + i
<1>1. /\ f.slots \in Seq(ACall) /\ Len(f.slots) \in Nat
      /\ index \in Nat /\ First(d) \in {0, 1} /\ (d = "openai" => First(d) = 0)
  <2>1. f.slots \in Seq(ACall)
    BY DEF AFold
  <2> QED BY <2>1, LenProperties DEF First
<1>2. call \in ACall /\ c \in ACall
  <2>1. call \in ACall
    BY CallFacts
  <2>2. call.id \in Nat \X Nat /\ call.name \in Word /\ <<>> \in Seq(Word)
    BY <2>1, EmptySeq DEF ACall
  <2> QED BY <2>1, <2>2, CallType
<1>3. l \in ALine /\ l.kind = "head" /\ l.index = index /\ l.calls = <<c>>
  <2> DEFINE w == HeadLine(call, index)
  <2>1. w.kind = "head" /\ w.index = index /\ w.calls = <<c>>
    BY DEF HeadLine, Line
  <2> HIDE DEF w
  <2>2. Reads(l, w)
    BY DEF w
  <2>3. PICK e \in ACall : l.calls = <<e>> /\ LikeCall(e, c)
    BY <2>1, <2>2, OneCall
  <2>4. e = c
    BY <2>3, OneHead
  <2> QED BY <2>1, <2>2, <2>3, <2>4 DEF Reads
<1>4. g = IF d = "openai" /\ index >= MaxCalls THEN f
          ELSE [f EXCEPT !.slots = Headed(f.slots, index, c)]
  BY <1>1, <1>2, <1>3, FragmentFeed
<1>5. /\ d = "openai" /\ i >= MaxCalls => Len(f.slots) = MaxCalls
      /\ ~(d = "openai" /\ i >= MaxCalls) =>
           Len(f.slots) <= First(d) + i /\ (i > 0 => Len(f.slots) = First(d) + i)
      /\ \A j \in 1..(Len(f.slots) - First(d)) :
           j <= i /\ PartOf(f.slots[First(d) + j], a.calls[j], Len(a.calls[j].args))
  BY <1>1, WholeIsCut
<1> HIDE DEF g
<1>6. CASE d = "openai" /\ i >= MaxCalls
  <2>1. g = f
    BY <1>1, <1>4, <1>6
  <2>2. Unmoved(f, g)
    BY <2>1 DEF Unmoved
  <2>3. SlotsCut(d, a, i + 1, 0, f.slots)
    <3>1. Len(f.slots) = Slots(d, i + 1)
      BY <1>5, <1>6 DEF Slots
    <3>2. \A j \in 1..(Len(f.slots) - First(d)) : j < i + 1
      BY <1>1, <1>5
    <3> QED BY <1>5, <3>1, <3>2 DEF SlotsCut
  <2> QED BY <2>1, <2>2, <2>3 DEF g
<1>7. CASE ~(d = "openai" /\ i >= MaxCalls)
  <2> DEFINE s == Headed(f.slots, index, c)
  <2>1. /\ s \in Seq(ACall) /\ Len(s) = index + 1
        /\ s[index + 1] = Call(c.id, c.name, <<>>)
        /\ \A x \in 1..index : s[x] = IF x <= Len(f.slots) THEN f.slots[x] ELSE NoCall
    <3>1. Len(f.slots) <= index
      BY <1>5, <1>7
    <3>2. f.slots \in Seq(ACall) /\ index \in Nat
      BY <1>1
    <3> HIDE DEF c, index
    <3> QED BY <1>2, <3>1, <3>2, HeadedFacts
  <2>2. g = [f EXCEPT !.slots = s]
    BY <1>1, <1>4, <1>7
  <2> HIDE DEF s
  <2>3. Unmoved(f, g) /\ g.slots = s
    BY <2>1, <2>2, SlotsStep DEF SlotsOnly
  <2>4. TextBlock(d, s)
    <3> SUFFICES ASSUME First(d) = 1 PROVE s[1] = NoCall
      BY DEF TextBlock
    <3>1. index >= 1 /\ 1 \in 1..index
      OBVIOUS
    <3>2. s[1] = IF 1 <= Len(f.slots) THEN f.slots[1] ELSE NoCall
      BY <2>1, <3>1
    <3> QED BY <1>1, <3>2 DEF TextBlock
  <2>5. Len(s) = Slots(d, i + 1) /\ Len(s) - First(d) = i + 1
    BY <1>1, <1>7, <2>1 DEF Slots
  <2>6. ASSUME NEW j \in 1..(i + 1)
        PROVE  PartOf(s[First(d) + j], a.calls[j], IF j < i + 1 THEN Len(a.calls[j].args) ELSE 0)
    <3>1. CASE j = i + 1
      <4>1. s[First(d) + j] = Call(call.id, call.name, <<>>)
        <5>1. First(d) + j = index + 1
          BY <1>1, <3>1
        <5>2. c.id = call.id /\ c.name = call.name
          BY DEF Call
        <5> QED BY <2>1, <5>1, <5>2
      <4>2. PartOf(Call(call.id, call.name, <<>>), call, 0)
        <5>1. Len(<<>>) = 0 /\ 1..0 = {}
          OBVIOUS
        <5> QED BY <5>1 DEF PartOf, Call
      <4> QED BY <3>1, <4>1, <4>2
    <3>2. CASE j # i + 1
      <4>1. j < i + 1 /\ j <= i /\ i > 0
        BY <3>2
      <4>2. Len(f.slots) = First(d) + i /\ j \in 1..(Len(f.slots) - First(d))
        BY <1>1, <1>5, <1>7, <4>1
      <4>3. s[First(d) + j] = f.slots[First(d) + j]
        <5>1. First(d) + j \in 1..index /\ First(d) + j <= Len(f.slots)
          BY <1>1, <4>1, <4>2
        <5> HIDE DEF index
        <5> QED BY <2>1, <5>1
      <4> QED BY <1>5, <4>1, <4>2, <4>3
    <3> QED BY <3>1, <3>2
  <2> QED BY <2>3, <2>4, <2>5, <2>6 DEF SlotsCut, g
<1> QED BY <1>6, <1>7

LEMMA PartStep ==
  ASSUME NEW slot \in ACall, NEW call \in ACall, NEW q \in 1..Len(call.args),
         PartOf(slot, call, q - 1), NEW y \in Word, Like(y, call.args[q])
  PROVE  PartOf(Call(slot.id, slot.name, slot.args \o <<y>>), call, q)
<1> DEFINE x == <<y>>
           t == slot.args \o x
<1>1. /\ slot.args \in Seq(Word) /\ call.args \in Seq(Word) /\ Len(call.args) \in Nat
      /\ x \in Seq(Word) /\ Len(x) = 1 /\ x[1] = y
  <2>1. slot.args \in Seq(Word) /\ call.args \in Seq(Word)
    BY DEF ACall
  <2> QED BY <2>1, LenProperties, Singleton
<1> HIDE DEF x
<1>2. /\ Len(t) = Len(slot.args) + Len(x)
      /\ \A i \in 1..(Len(slot.args) + Len(x)) :
           t[i] = IF i <= Len(slot.args) THEN slot.args[i] ELSE x[i - Len(slot.args)]
  <2>1. slot.args \in Seq(Word) /\ x \in Seq(Word)
    BY <1>1
  <2> QED BY <2>1, ConcatProperties
<1> HIDE DEF t
<1>3. /\ slot.id = call.id /\ slot.name = call.name /\ Len(slot.args) = q - 1
      /\ \A i \in 1..(q - 1) : Like(slot.args[i], call.args[i])
  BY DEF PartOf
<1>4. q \in Nat /\ Len(t) = q
  BY <1>1, <1>2, <1>3
<1>5. ASSUME NEW i \in 1..q
      PROVE  Like(t[i], call.args[i])
  <2>1. i \in 1..(Len(slot.args) + Len(x))
    BY <1>1, <1>3, <1>4
  <2>2. CASE i <= q - 1
    BY <1>2, <1>3, <1>4, <2>1, <2>2
  <2>3. CASE i = q
    <3>1. ~(i <= Len(slot.args)) /\ i - Len(slot.args) = 1
      BY <1>3, <1>4, <2>3
    <3> QED BY <1>1, <1>2, <2>1, <2>3, <3>1
  <2> QED BY <1>4, <2>2, <2>3
<1>6. PartOf(Call(slot.id, slot.name, t), call, q)
  BY <1>3, <1>4, <1>5 DEF PartOf, Call
<1> QED BY <1>6 DEF t, x

LEMMA ArgsStep ==
  ASSUME NEW d \in InFragments, NEW a \in AnAnswer, MaxCalls \in Nat,
         NEW i \in 1..Len(a.calls), NEW q \in 1..Len(a.calls[i].args), NEW f \in AFold,
         TextBlock(d, f.slots), SlotsCut(d, a, i, q - 1, f.slots),
         NEW l, Reads(l, ArgsLine(a.calls[i], First(d) + i - 1, q))
  PROVE  /\ Unmoved(f, Feed(d, f, l)) /\ TextBlock(d, Feed(d, f, l).slots)
         /\ SlotsCut(d, a, i, q, Feed(d, f, l).slots)
<1> DEFINE g == Feed(d, f, l)
           call == a.calls[i]
           index == First(d) + i - 1
<1>1. /\ f.slots \in Seq(ACall) /\ Len(f.slots) \in Nat
      /\ index \in Nat /\ First(d) \in {0, 1} /\ (d = "openai" => First(d) = 0)
  <2>1. f.slots \in Seq(ACall)
    BY DEF AFold
  <2> QED BY <2>1, LenProperties DEF First
<1>a. call \in ACall
  BY CallFacts
<1>b. PICK c \in ACall :
        /\ l \in ALine /\ l.kind = "args" /\ l.index = index /\ l.calls = <<c>>
        /\ \E y \in Word : Like(y, call.args[q]) /\ c = Call(NoId, "", <<y>>)
  <2> DEFINE w == ArgsLine(call, index, q)
             e == Call(NoId, "", <<call.args[q]>>)
  <2>1. w.kind = "args" /\ w.index = index /\ w.calls = <<e>>
    BY DEF ArgsLine, Line
  <2> HIDE DEF w
  <2>2. Reads(l, w)
    BY DEF w
  <2>3. PICK c \in ACall : l.calls = <<c>> /\ LikeCall(c, e)
    BY <2>1, <2>2, OneCall
  <2>4. \E y \in Word : Like(y, call.args[q]) /\ c = Call(NoId, "", <<y>>)
    BY <2>3, OnePiece
  <2> QED BY <2>1, <2>2, <2>3, <2>4 DEF Reads
<1>c. PICK y \in Word : Like(y, call.args[q]) /\ c = Call(NoId, "", <<y>>)
  BY <1>b
<1>2. call \in ACall /\ c \in ACall /\ c.args = <<y>>
  BY <1>a, <1>c DEF Call
<1>3. l \in ALine /\ l.kind = "args" /\ l.index = index /\ l.calls = <<c>>
  BY <1>b
<1>4. g = IF d = "openai" /\ index >= MaxCalls THEN f
          ELSE [f EXCEPT !.slots = Added(f.slots, index, c)]
  <2>1. index \in Nat /\ c \in ACall
    BY <1>1, <1>2
  <2> HIDE DEF index
  <2> QED BY <1>3, <2>1, FragmentFeed
<1>5. /\ Len(f.slots) = Slots(d, i)
      /\ \A j \in 1..(Len(f.slots) - First(d)) :
           PartOf(f.slots[First(d) + j], a.calls[j],
                  IF j < i THEN Len(a.calls[j].args) ELSE q - 1)
  BY DEF SlotsCut
<1> HIDE DEF g
<1>6. CASE d = "openai" /\ i > MaxCalls
  <2>1. g = f
    BY <1>1, <1>4, <1>6
  <2>2. Unmoved(f, g)
    BY <2>1 DEF Unmoved
  <2>3. \A j \in 1..(Len(f.slots) - First(d)) : j < i
    BY <1>1, <1>5, <1>6 DEF Slots
  <2>4. SlotsCut(d, a, i, q, f.slots)
    BY <1>5, <2>3 DEF SlotsCut
  <2> QED BY <2>1, <2>2, <2>4 DEF g
<1>7. CASE ~(d = "openai" /\ i > MaxCalls)
  <2> DEFINE s == Added(f.slots, index, c)
  <2>1. Len(f.slots) = index + 1 /\ Len(f.slots) = First(d) + i
    BY <1>1, <1>5, <1>7 DEF Slots
  <2> HIDE DEF index
  <2>2. /\ s \in Seq(ACall) /\ Len(s) = index + 1
        /\ s[index + 1] = Call(f.slots[index + 1].id, f.slots[index + 1].name,
                               f.slots[index + 1].args \o c.args)
        /\ \A x \in 1..index : s[x] = f.slots[x]
    BY <1>1, <1>2, <2>1, AddedFacts
  <2>3. g = [f EXCEPT !.slots = s]
    BY <1>1, <1>4, <1>7 DEF index
  <2> HIDE DEF s
  <2>4. Unmoved(f, g) /\ g.slots = s
    BY <2>2, <2>3, SlotsStep DEF SlotsOnly
  <2>5. TextBlock(d, s)
    <3> SUFFICES ASSUME First(d) = 1 PROVE s[1] = NoCall
      BY DEF TextBlock
    <3>1. 1 \in 1..index
      BY <1>1 DEF index
    <3> QED BY <1>1, <2>1, <2>2, <3>1 DEF TextBlock
  <2>6. Len(s) = Slots(d, i) /\ Len(s) - First(d) = i
    BY <1>1, <1>5, <2>1, <2>2
  <2>7. ASSUME NEW j \in 1..i
        PROVE  PartOf(s[First(d) + j], a.calls[j], IF j < i THEN Len(a.calls[j].args) ELSE q)
    <3>0. j \in 1..(Len(f.slots) - First(d))
      BY <1>1, <2>1
    <3>1. CASE j = i
      <4>1. First(d) + j = index + 1
        BY <1>1, <2>1, <3>1
      <4>2. f.slots[index + 1] \in ACall /\ PartOf(f.slots[index + 1], call, q - 1)
        <5>1. index + 1 \in 1..Len(f.slots)
          BY <1>1, <2>1
        <5> QED BY <1>1, <1>5, <3>0, <3>1, <4>1, <5>1, ElementOfSeq
      <4>3. PartOf(Call(f.slots[index + 1].id, f.slots[index + 1].name,
                        f.slots[index + 1].args \o <<y>>), call, q)
        BY <1>2, <1>c, <4>2, PartStep
      <4> QED BY <1>2, <2>2, <3>1, <4>1, <4>3
    <3>2. CASE j # i
      <4>1. j < i /\ First(d) + j \in 1..index
        BY <1>1, <3>2 DEF index
      <4> QED BY <1>5, <2>2, <3>0, <4>1
    <3> QED BY <3>1, <3>2
  <2> QED BY <2>4, <2>5, <2>6, <2>7 DEF SlotsCut, g
<1> QED BY <1>6, <1>7

LEMMA NumberedFacts ==
  ASSUME NEW calls \in Seq(ACall)
  PROVE  /\ Numbered(calls) \in Seq(ACall) /\ Len(Numbered(calls)) = Len(calls)
         /\ \A i \in 1..Len(calls) : Numbered(calls)[i] = [calls[i] EXCEPT !.id = <<0, i>>]
<1> DEFINE n == Numbered(calls)
<1>1. Len(calls) \in Nat /\ DOMAIN calls = 1..Len(calls)
  BY LenProperties
<1>2. \A i \in 1..Len(calls) : n[i] = [calls[i] EXCEPT !.id = <<0, i>>]
  BY <1>1 DEF Numbered
<1>3. ASSUME NEW i \in 1..Len(calls) PROVE n[i] \in ACall
  <2>1. calls[i] \in ACall /\ <<0, i>> \in Nat \X Nat
    BY <1>1, ElementOfSeq
  <2>2. [calls[i] EXCEPT !.id = <<0, i>>] \in ACall
    BY <2>1 DEF ACall
  <2> QED BY <1>2, <2>2
<1>4. n \in [1..Len(calls) -> ACall]
  <2>1. n = [i \in 1..Len(calls) |-> n[i]]
    BY <1>1 DEF Numbered
  <2> HIDE DEF n
  <2> QED BY <1>3, <2>1
<1> HIDE DEF n
<1>5. n \in Seq(ACall) /\ Len(n) = Len(calls)
  BY <1>1, <1>4, FunctionIsSeq
<1> QED BY <1>2, <1>5 DEF n

LEMMA NumberedLike ==
  ASSUME NEW x \in ACall, NEW y \in ACall, NEW n,
         LikeCall(x, y) \/ LikeCall(x, [y EXCEPT !.id = <<0, n>>])
  PROVE  LikeCall([x EXCEPT !.id = <<0, n>>], [y EXCEPT !.id = <<0, n>>])
<1>1. x.name = y.name /\ LikeText(x.args, y.args)
  BY DEF LikeCall, ACall
<1>2. /\ [x EXCEPT !.id = <<0, n>>].id = <<0, n>> /\ [y EXCEPT !.id = <<0, n>>].id = <<0, n>>
      /\ [x EXCEPT !.id = <<0, n>>].name = x.name /\ [y EXCEPT !.id = <<0, n>>].name = y.name
      /\ [x EXCEPT !.id = <<0, n>>].args = x.args /\ [y EXCEPT !.id = <<0, n>>].args = y.args
  BY DEF ACall
<1> QED BY <1>1, <1>2 DEF LikeCall

LEMMA NumberedAlike ==
  ASSUME NEW s \in Seq(ACall), NEW t \in Seq(ACall), LikeCalls(s, t)
  PROVE  LikeCalls(Numbered(s), Numbered(t))
<1> DEFINE x == Numbered(s)
           y == Numbered(t)
<1>1. /\ Len(s) = Len(t) /\ Len(s) \in Nat /\ DOMAIN s = 1..Len(s)
      /\ \A i \in 1..Len(s) : LikeCall(s[i], t[i]) /\ s[i] \in ACall /\ t[i] \in ACall
  <2>1. Len(s) = Len(t) /\ DOMAIN s = 1..Len(s) /\ Len(s) \in Nat
    BY LenProperties DEF LikeCalls
  <2>2. \A i \in 1..Len(s) : s[i] \in ACall /\ t[i] \in ACall
    BY <2>1, ElementOfSeq
  <2> QED BY <2>1, <2>2 DEF LikeCalls
<1>2. /\ x \in Seq(ACall) /\ Len(x) = Len(s)
      /\ \A i \in 1..Len(s) : x[i] = [s[i] EXCEPT !.id = <<0, i>>]
  BY NumberedFacts
<1>3. /\ y \in Seq(ACall) /\ Len(y) = Len(s)
      /\ \A i \in 1..Len(s) : y[i] = [t[i] EXCEPT !.id = <<0, i>>]
  BY <1>1, NumberedFacts
<1> HIDE DEF x, y
<1>4. DOMAIN x = 1..Len(s)
  BY <1>2, LenProperties
<1>5. ASSUME NEW i \in 1..Len(s) PROVE LikeCall(x[i], y[i])
  <2>1. s[i] \in ACall /\ t[i] \in ACall /\ LikeCall(s[i], t[i])
    BY <1>1
  <2>2. LikeCall([s[i] EXCEPT !.id = <<0, i>>], [t[i] EXCEPT !.id = <<0, i>>])
    BY <2>1, NumberedLike
  <2> QED BY <1>2, <1>3, <2>2
<1>6. LikeCalls(x, y)
  BY <1>2, <1>3, <1>4, <1>5 DEF LikeCalls
<1> QED BY <1>6 DEF x, y

\* A line of the body, in fragments or whole.
BodyFedOne(d, a, p, f, g) ==
  /\ g \in AFold /\ CallsAssembled(d, a, p, g)
  /\ g.text = f.text /\ g.out = f.out /\ g.full = f.full /\ g.usage = f.usage
  /\ g.final = f.final /\ g.finalCalls = f.finalCalls

LEMMA FragmentStep ==
  ASSUME NEW d \in InFragments, NEW a \in AnAnswer, MaxCalls \in Nat,
         NEW p \in 1..BodyLen(d, a), NEW f \in AFold, CallsAssembled(d, a, p - 1, f),
         NEW l, Reads(l, Body(d, a)[p])
  PROVE  BodyFedOne(d, a, p, f, Feed(d, f, l))
<1> DEFINE g == Feed(d, f, l)
<1>1. SlotsAssembled(d, a, p - 1, f.slots)
  BY DEF CallsAssembled, InFragments
<1>2. TextBlock(d, f.slots)
  BY <1>1 DEF SlotsAssembled
<1>3. Unmoved(f, g) /\ SlotsAssembled(d, a, p, g.slots)
  <2>1. CASE \E i \in 0..(Len(a.calls) - 1) :
               /\ p = Before(a.calls)[i] + 1 /\ SlotsWhole(d, a, i, f.slots)
               /\ Body(d, a)[p] = HeadLine(a.calls[i + 1], First(d) + i)
    <3>1. PICK i \in 0..(Len(a.calls) - 1) :
               /\ p = Before(a.calls)[i] + 1 /\ SlotsWhole(d, a, i, f.slots)
               /\ Body(d, a)[p] = HeadLine(a.calls[i + 1], First(d) + i)
      BY <2>1
    <3>2. Unmoved(f, g) /\ TextBlock(d, g.slots) /\ SlotsCut(d, a, i + 1, 0, g.slots)
      BY <1>2, <3>1, HeadStep
    <3>3. /\ i + 1 \in 1..Len(a.calls) /\ 0 \in 0..Len(a.calls[i + 1].args)
          /\ p = Before(a.calls)[(i + 1) - 1] + 1 + 0
      <4>1. i + 1 \in 1..Len(a.calls) /\ (i + 1) - 1 = i /\ p = p + 0
        BY CallFacts
      <4>2. Len(a.calls[i + 1].args) \in Nat
        BY <4>1, CallFacts
      <4>3. Before(a.calls)[i] + 1 + 0 = Before(a.calls)[i] + 1
        <5>1. Before(a.calls)[i] \in Nat
          <6>1. a.calls \in Seq(ACall) /\ Len(a.calls) \in Nat
            BY CallFacts
          <6>2. BeforeTo(a.calls, Len(a.calls), Before(a.calls))
            BY <6>1, BeforeFacts
          <6>3. Before(a.calls) \in [0..Len(a.calls) -> Nat]
            BY <6>2 DEF BeforeTo
          <6>4. i \in 0..Len(a.calls)
            BY <6>1
          <6> QED BY <6>3, <6>4
        <5> QED BY <5>1
      <4> QED BY <3>1, <4>1, <4>2, <4>3
    <3> HIDE DEF g
    <3> QED BY <3>2, <3>3 DEF SlotsAssembled
  <2>2. CASE \E i \in 1..Len(a.calls) : \E q \in 1..Len(a.calls[i].args) :
               /\ p = Before(a.calls)[i - 1] + 1 + q /\ SlotsCut(d, a, i, q - 1, f.slots)
               /\ Body(d, a)[p] = ArgsLine(a.calls[i], First(d) + i - 1, q)
    <3>1. PICK i \in 1..Len(a.calls) : \E q \in 1..Len(a.calls[i].args) :
               /\ p = Before(a.calls)[i - 1] + 1 + q /\ SlotsCut(d, a, i, q - 1, f.slots)
               /\ Body(d, a)[p] = ArgsLine(a.calls[i], First(d) + i - 1, q)
      BY <2>2
    <3>2. PICK q \in 1..Len(a.calls[i].args) :
               /\ p = Before(a.calls)[i - 1] + 1 + q /\ SlotsCut(d, a, i, q - 1, f.slots)
               /\ Body(d, a)[p] = ArgsLine(a.calls[i], First(d) + i - 1, q)
      BY <3>1
    <3>3. Unmoved(f, g) /\ TextBlock(d, g.slots) /\ SlotsCut(d, a, i, q, g.slots)
      BY <1>2, <3>2, ArgsStep
    <3>4. q \in 0..Len(a.calls[i].args)
      BY CallFacts
    <3> HIDE DEF g
    <3> QED BY <3>2, <3>3, <3>4 DEF SlotsAssembled
  <2> HIDE DEF g
  <2>3. \/ \E i \in 0..(Len(a.calls) - 1) :
             /\ p = Before(a.calls)[i] + 1 /\ SlotsWhole(d, a, i, f.slots)
             /\ Body(d, a)[p] = HeadLine(a.calls[i + 1], First(d) + i)
        \/ \E i \in 1..Len(a.calls) : \E q \in 1..Len(a.calls[i].args) :
             /\ p = Before(a.calls)[i - 1] + 1 + q /\ SlotsCut(d, a, i, q - 1, f.slots)
             /\ Body(d, a)[p] = ArgsLine(a.calls[i], First(d) + i - 1, q)
    BY <1>1, NextFragment, SMTT(60)
  <2> QED BY <2>1, <2>2, <2>3
<1> HIDE DEF g
<1>4. CallsAssembled(d, a, p, g)
  BY <1>3 DEF CallsAssembled, InFragments
<1> QED BY <1>3, <1>4 DEF BodyFedOne, Unmoved, g

\* A line with whole calls.
WholeCallsOf(d, f, calls) ==
  CASE d \in {"gemini", "code_assist"} -> Numbered(f.calls \o calls)
    [] d = "ollama" -> IF calls = <<>> THEN f.calls ELSE Numbered(calls)
    [] d = "chatgpt" -> f.calls \o calls

LEMMA WholeCallsType ==
  ASSUME NEW d \in Dialect \ InFragments, NEW a \in AnAnswer,
         NEW p \in 1..BodyLen(d, a), NEW f \in AFold, CallsAssembled(d, a, p - 1, f),
         NEW calls \in Seq(ACall),
         d = "ollama" => LikeCalls(calls, a.calls),
         d # "ollama" => \E c \in ACall : calls = <<c>> /\ LikeCall(c, a.calls[p]),
         NEW g, g.calls = WholeCallsOf(d, f, calls)
  PROVE  g.calls \in Seq(ACall) /\ CallsAssembled(d, a, p, g)
<1>1. f.calls \in Seq(ACall) /\ Len(f.calls) \in Nat /\ p \in Nat /\ p >= 1
  <2>1. f.calls \in Seq(ACall)
    BY DEF AFold
  <2> QED BY <2>1, LenProperties, BodyFacts
<1>2. CASE d # "ollama"
  <2>0. PICK e \in ACall : calls = <<e>> /\ LikeCall(e, a.calls[p])
    BY <1>2
  <2> DEFINE x == <<e>>
             t == f.calls \o x
  <2>1. p \in 1..Len(a.calls)
    BY <1>2 DEF BodyLen
  <2>2. x \in Seq(ACall) /\ Len(x) = 1 /\ x[1] = e
    BY Singleton
  <2>a. calls = x
    BY <2>0
  <2> HIDE DEF x
  <2>3. Len(f.calls) = p - 1
    BY <1>2 DEF CallsAssembled, Dialect, InFragments
  <2>4. /\ t \in Seq(ACall) /\ Len(t) = Len(f.calls) + Len(x)
        /\ \A i \in 1..(Len(f.calls) + Len(x)) :
             t[i] = IF i <= Len(f.calls) THEN f.calls[i] ELSE x[i - Len(f.calls)]
    <3>1. f.calls \in Seq(ACall)
      BY <1>1
    <3> QED BY <2>2, <3>1, ConcatProperties
  <2>b. f.calls \o calls = t
    BY <2>a
  <2> HIDE DEF t
  <2>5. Len(t) = p
    BY <1>1, <2>2, <2>3, <2>4
  <2>6. t[p] = e /\ \A i \in 1..(p - 1) : t[i] = f.calls[i]
    BY <1>1, <2>2, <2>3, <2>4
  <2>7. CASE d = "chatgpt"
    <3>1. g.calls = t
      BY <2>7, <2>b DEF WholeCallsOf
    <3>2. \A i \in 1..(p - 1) : LikeCall(f.calls[i], a.calls[i])
      BY <2>7 DEF CallsAssembled, InFragments
    <3>3. ASSUME NEW i \in 1..p PROVE LikeCall(t[i], a.calls[i])
      <4>1. CASE i = p
        BY <2>0, <2>6, <4>1
      <4>2. CASE i # p
        <5>1. i \in 1..(p - 1)
          BY <1>1, <4>2
        <5> QED BY <2>6, <3>2, <5>1
      <4> QED BY <4>1, <4>2
    <3> QED BY <2>4, <2>5, <2>7, <3>1, <3>3 DEF CallsAssembled, InFragments
  <2>8. CASE d \in {"gemini", "code_assist"}
    <3>1. g.calls = Numbered(t)
      BY <2>8, <2>b DEF WholeCallsOf
    <3>2. \A i \in 1..(p - 1) : LikeCall(f.calls[i], Numbered(a.calls)[i])
      BY <2>8 DEF CallsAssembled, InFragments
    <3>3. /\ Numbered(t) \in Seq(ACall) /\ Len(Numbered(t)) = p
          /\ \A i \in 1..p : Numbered(t)[i] = [t[i] EXCEPT !.id = <<0, i>>]
      BY <2>4, <2>5, NumberedFacts
    <3>4. \A i \in 1..Len(a.calls) : Numbered(a.calls)[i] = [a.calls[i] EXCEPT !.id = <<0, i>>]
      BY CallFacts, NumberedFacts
    <3>5. ASSUME NEW i \in 1..p
          PROVE  LikeCall(Numbered(t)[i], Numbered(a.calls)[i])
      <4>1. i \in 1..Len(a.calls) /\ a.calls[i] \in ACall
        BY <2>1, CallFacts
      <4>2. t[i] \in ACall
        BY <2>4, <2>5, ElementOfSeq
      <4>3. LikeCall(t[i], a.calls[i]) \/ LikeCall(t[i], [a.calls[i] EXCEPT !.id = <<0, i>>])
        <5>1. CASE i = p
          BY <2>0, <2>6, <5>1
        <5>2. CASE i # p
          <6>1. i \in 1..(p - 1)
            BY <1>1, <5>2
          <6>2. LikeCall(t[i], Numbered(a.calls)[i])
            BY <2>6, <3>2, <6>1
          <6> QED BY <3>4, <4>1, <6>2
        <5> QED BY <5>1, <5>2
      <4>4. LikeCall([t[i] EXCEPT !.id = <<0, i>>], [a.calls[i] EXCEPT !.id = <<0, i>>])
        BY <4>1, <4>2, <4>3, NumberedLike
      <4> QED BY <3>3, <3>4, <4>1, <4>4
    <3> QED BY <2>8, <3>1, <3>3, <3>5 DEF CallsAssembled, InFragments
  <2> QED BY <1>2, <2>7, <2>8 DEF Dialect, InFragments
<1>3. CASE d = "ollama"
  <2>1. p = 1
    BY <1>3 DEF BodyLen, InFragments
  <2>2. f.calls = <<>>
    BY <1>3, <2>1 DEF CallsAssembled, InFragments
  <2>3. LikeCalls(calls, a.calls) /\ a.calls \in Seq(ACall) /\ Len(calls) = Len(a.calls)
    BY <1>3, CallFacts DEF LikeCalls
  <2>4. LikeCalls(Numbered(calls), Numbered(a.calls)) /\ Numbered(calls) \in Seq(ACall)
    BY <2>3, NumberedAlike, NumberedFacts
  <2>5. calls = <<>> => Numbered(calls) = <<>>
    <3>1. Numbered(calls) \in Seq(ACall) /\ Len(Numbered(calls)) = Len(calls)
      BY NumberedFacts
    <3> QED BY <3>1, EmptySeq
  <2>6. g.calls = Numbered(calls)
    BY <1>3, <2>2, <2>5 DEF WholeCallsOf
  <2> QED BY <1>3, <2>1, <2>4, <2>6 DEF CallsAssembled, InFragments
<1> QED BY <1>2, <1>3

LEMMA WholeStep ==
  ASSUME NEW d \in Dialect \ InFragments, NEW a \in AnAnswer,
         NEW p \in 1..BodyLen(d, a), NEW f \in AFold, CallsAssembled(d, a, p - 1, f),
         NEW l, Reads(l, Body(d, a)[p])
  PROVE  BodyFedOne(d, a, p, f, Feed(d, f, l))
<1> DEFINE g == Feed(d, f, l)
           calls == WholeCallsOf(d, f, l.calls)
<1>1. Reads(l, WholeLine(d, a, p)) /\ l.calls \in Seq(ACall)
  BY BodyFacts DEF Reads, ALine
<1>a. d = "ollama" => l.kind = "calls" /\ LikeCalls(l.calls, a.calls)
  BY <1>1 DEF Reads, WholeLine, Line
<1>b. d # "ollama" =>
        l.kind = "call" /\ \E c \in ACall : l.calls = <<c>> /\ LikeCall(c, a.calls[p])
  <2> DEFINE w == WholeLine(d, a, p)
  <2> SUFFICES ASSUME d # "ollama"
               PROVE  l.kind = "call" /\ \E c \in ACall : l.calls = <<c>> /\ LikeCall(c, a.calls[p])
    OBVIOUS
  <2>1. w.calls = <<a.calls[p]>> /\ w.kind = "call"
    BY DEF WholeLine, Line
  <2> HIDE DEF w
  <2>2. Reads(l, w)
    BY <1>1 DEF w
  <2> QED BY <2>1, <2>2, OneCall DEF Reads
<1>2. g = [f EXCEPT !.calls = calls]
  <2>1. CASE d = "ollama"
    BY <1>a, <2>1 DEF Feed, OllamaFeed, OllamaCalls, WholeCallsOf
  <2>2. CASE d # "ollama"
    <3>1. l.kind = "call"
      BY <1>b, <2>2
    <3>2. CASE d \in {"gemini", "code_assist"}
      BY <3>1, <3>2 DEF Feed, GeminiFeed, WholeCallsOf
    <3>3. CASE d = "chatgpt"
      BY <3>1, <3>3 DEF Feed, ChatGptFeed, WholeCallsOf
    <3> QED BY <2>2, <3>2, <3>3 DEF Dialect, InFragments
  <2> QED BY <2>1, <2>2
<1> HIDE DEF calls, g
<1>3. g.calls = calls
  BY <1>2 DEF AFold
<1>4. g.calls \in Seq(ACall) /\ CallsAssembled(d, a, p, g)
  <2>1. g.calls = WholeCallsOf(d, f, l.calls)
    BY <1>3 DEF calls
  <2> QED BY <1>1, <1>a, <1>b, <2>1, WholeCallsType
<1>5. /\ g.text = f.text /\ g.out = f.out /\ g.full = f.full /\ g.usage = f.usage
      /\ g.final = f.final /\ g.finalCalls = f.finalCalls
  BY <1>2 DEF AFold
<1>6. g \in AFold
  BY <1>2, <1>3, <1>4 DEF AFold
<1> QED BY <1>4, <1>5, <1>6 DEF BodyFedOne, g

\* The last line adds no more than it says.
EndFed(d, a, r, f, g) ==
  /\ g \in AFold /\ EndAssembled(d, a, r, TRUE, g)
  /\ g.text = f.text /\ g.out = f.out /\ g.full = f.full
  /\ g.calls = f.calls /\ g.slots = f.slots

LEMMA EndStep ==
  ASSUME NEW d \in Dialect, NEW a \in AnAnswer, NEW r \in BOOLEAN, NEW f \in AFold,
         EndAssembled(d, a, r, FALSE, f), NEW l, Reads(l, EndLine(d, a, r))
  PROVE  EndFed(d, a, r, f, Feed(d, f, l))
<1> DEFINE g == Feed(d, f, l)
<1>1. f.usage = FALSE /\ f.final = <<>> /\ f.finalCalls = <<>>
  BY DEF EndAssembled
<1>2. l \in ALine
  BY DEF Reads
<1>3. CASE d # "chatgpt"
  <2>1. l.kind = "usage"
    BY <1>3 DEF Reads, EndLine, Line
  <2>2. g = [f EXCEPT !.usage = TRUE]
    BY <1>3, <2>1 DEF Feed, OpenAIFeed, AnthropicFeed, GeminiFeed, OllamaFeed, Dialect
  <2> HIDE DEF g
  <2>3. /\ g \in AFold /\ g.usage = TRUE /\ g.final = f.final /\ g.finalCalls = f.finalCalls
        /\ g.text = f.text /\ g.out = f.out /\ g.full = f.full
        /\ g.calls = f.calls /\ g.slots = f.slots
    BY <2>2 DEF AFold
  <2>4. EndAssembled(d, a, r, TRUE, g)
    BY <1>1, <2>3 DEF EndAssembled
  <2> QED BY <2>3, <2>4 DEF g, EndFed
<1>4. CASE d = "chatgpt"
  <2>1. /\ l.kind = "completed"
        /\ LikeText(l.text, IF r THEN a.text ELSE <<>>)
        /\ LikeCalls(l.calls, IF r THEN a.calls ELSE <<>>)
    BY <1>4 DEF Reads, EndLine, Line
  <2>2. g = [f EXCEPT !.usage = TRUE, !.final = l.text, !.finalCalls = l.calls]
    BY <1>4, <2>1 DEF Feed, ChatGptFeed
  <2>3. l.text \in AText /\ l.calls \in Seq(ACall)
    BY <1>2 DEF ALine
  <2> HIDE DEF g
  <2>4. /\ g \in AFold /\ g.usage = TRUE /\ g.final = l.text /\ g.finalCalls = l.calls
        /\ g.text = f.text /\ g.out = f.out /\ g.full = f.full
        /\ g.calls = f.calls /\ g.slots = f.slots
    BY <2>2, <2>3 DEF AFold
  <2>5. ~r => l.text = <<>>
    <3>1. ~r => Len(l.text) = 0
      BY <2>1, EmptySeq DEF LikeText
    <3> QED BY <2>3, <3>1, EmptySeq DEF AText
  <2>a. ~r => l.calls = <<>>
    <3>1. ~r => Len(l.calls) = 0
      BY <2>1, EmptySeq DEF LikeCalls
    <3> QED BY <2>3, <3>1, EmptySeq
  <2>6. EndAssembled(d, a, r, TRUE, g)
    BY <1>4, <2>1, <2>4, <2>5, <2>a DEF EndAssembled
  <2> QED BY <2>4, <2>6 DEF g, EndFed
<1> QED BY <1>3, <1>4

\* Every line takes the assembly one line further.
LEMMA AssembledStep ==
  ASSUME NEW d \in Dialect, NEW a \in AnAnswer, NEW r \in BOOLEAN,
         MaxText \in Nat, MaxCalls \in Nat,
         NEW k \in Nat, k < WireLen(d, a), NEW f, Assembled(d, a, r, k, f),
         NEW l, Reads(l, Wire(d, a, r)[k + 1])
  PROVE  Assembled(d, a, r, k + 1, Feed(d, f, l))
<1> DEFINE g == Feed(d, f, l)
           w == Wire(d, a, r)
<1>1. /\ f \in AFold /\ TextAssembled(d, a, TextsFed(d, a, k), f)
      /\ CallsAssembled(d, a, BodyFed(d, a, k), f)
      /\ EndAssembled(d, a, r, FALSE, f)
  <2>1. (k = WireLen(d, a)) = FALSE
    BY WireFacts
  <2> QED BY <2>1 DEF Assembled
<1>2. l \in ALine
  BY DEF Reads
<1>3. /\ \A i \in 1..LeadLen(d) : w[i] = Lead(d)[i]
      /\ \A i \in 1..Len(a.text) : w[LeadLen(d) + i] = Line("text", 0, <<a.text[i]>>, <<>>)
      /\ \A p \in 1..BodyLen(d, a) : w[LeadLen(d) + Len(a.text) + p] = Body(d, a)[p]
      /\ w[WireLen(d, a)] = EndLine(d, a, r)
  BY WireFacts
<1> HIDE DEF g, w
<1>4. CASE InLead(d, a, k) /\ k + 1 # WireLen(d, a)
  <2>1. /\ k + 1 \in 1..LeadLen(d) /\ TextsFed(d, a, k) = 0 /\ TextsFed(d, a, k + 1) = 0
        /\ BodyFed(d, a, k) = 0 /\ BodyFed(d, a, k + 1) = 0
    BY <1>4 DEF InLead, FedTo
  <2>2. d \in {"openai", "chatgpt", "anthropic"}
    BY <2>1 DEF LeadLen, Dialect
  <2>3. l.kind = "think" \/ (d = "anthropic" /\ l.kind = "block" /\ l.index = 0)
    <3>1. Reads(l, Lead(d)[k + 1])
      BY <1>3, <2>1 DEF w
    <3> QED BY <2>1, <3>1, LeadFacts DEF Reads
  <2>4. Unmoved(f, g) /\ (g.slots = f.slots \/ (d = "anthropic" /\ g.slots = Grown(f.slots, 0)))
    BY <1>1, <1>2, <2>2, <2>3, LeadStep DEF g
  <2>5. CallsAssembled(d, a, 0, g)
    <3>1. CASE d = "chatgpt"
      BY <1>1, <2>1, <2>4, <3>1 DEF CallsAssembled, Unmoved, InFragments
    <3>2. CASE d \in InFragments
      <4>1. SlotsAssembled(d, a, 0, f.slots)
        BY <1>1, <2>1, <3>2 DEF CallsAssembled, InFragments
      <4>2. SlotsAssembled(d, a, 0, g.slots)
        <5>1. CASE g.slots = f.slots
          BY <4>1, <5>1
        <5>2. CASE d = "anthropic" /\ g.slots = Grown(f.slots, 0)
          <6>1. f.slots \in Seq(ACall) /\ Len(f.slots) \in Nat
            <7>1. f.slots \in Seq(ACall)
              BY <1>1 DEF AFold
            <7> QED BY <7>1, LenProperties
          <6>2. Len(f.slots) <= 1
            <7>1. ASSUME NEW i \in 1..Len(a.calls), NEW q \in 0..Len(a.calls[i].args)
                  PROVE  0 # Before(a.calls)[i - 1] + 1 + q
              <8>1. a.calls \in Seq(ACall) /\ Len(a.calls) \in Nat /\ q \in Nat
                BY CallFacts
              <8>2. Before(a.calls) \in [0..Len(a.calls) -> Nat]
                BY <8>1, BeforeFacts DEF BeforeTo
              <8>3. i - 1 \in 0..Len(a.calls)
                BY <8>1
              <8>4. Before(a.calls)[i - 1] \in Nat
                BY <8>2, <8>3
              <8> QED BY <8>1, <8>4
            <7>2. First(d) = 1
              BY <5>2 DEF First
            <7> QED BY <4>1, <7>1, <7>2 DEF SlotsAssembled
          <6>3. /\ Len(g.slots) = 1
                /\ g.slots[1] = IF 1 <= Len(f.slots) THEN f.slots[1] ELSE NoCall
            <7> DEFINE x == Grown(f.slots, 0)
            <7>1. /\ Len(x) = IF Len(f.slots) > 0 THEN Len(f.slots) ELSE 0 + 1
                  /\ \A i \in 1..Len(x) : x[i] = IF i <= Len(f.slots) THEN f.slots[i] ELSE NoCall
              BY <6>1, GrownFacts, 0 \in Nat
            <7> HIDE DEF x
            <7>2. Len(x) = 1
              <8>1. Len(x) = IF Len(f.slots) > 0 THEN Len(f.slots) ELSE 0 + 1
                BY <7>1
              <8>2. Len(f.slots) = 0 \/ Len(f.slots) = 1
                <9>1. \A n \in Nat : n <= 1 => n = 0 \/ n = 1
                  OBVIOUS
                <9>2. Len(f.slots) \in Nat
                  BY <6>1
                <9> QED BY <6>2, <9>1, <9>2
              <8> QED BY <8>1, <8>2
            <7> QED BY <5>2, <7>1, <7>2 DEF x
          <6>4. g.slots[1] = NoCall
            BY <4>1, <5>2, <6>1, <6>3 DEF SlotsAssembled, TextBlock, First
          <6>5. First(d) = 1
            BY <5>2 DEF First
          <6>6. TextBlock(d, g.slots) /\ Len(g.slots) <= First(d)
            BY <6>3, <6>4, <6>5 DEF TextBlock
          <6> QED BY <6>6 DEF SlotsAssembled
        <5> QED BY <2>4, <5>1, <5>2
      <4> QED BY <3>2, <4>2 DEF CallsAssembled, InFragments
    <3> QED BY <2>2, <3>1, <3>2 DEF InFragments
  <2>6. TextAssembled(d, a, 0, g) /\ EndAssembled(d, a, r, FALSE, g) /\ g \in AFold
    BY <1>1, <2>1, <2>4 DEF TextAssembled, EndAssembled, Unmoved
  <2> QED BY <1>4, <2>1, <2>5, <2>6 DEF Assembled, g
<1>5. CASE \E i \in 1..Len(a.text) : AtText(d, a, k, i) /\ k + 1 # WireLen(d, a)
  <2>1. PICK i \in 1..Len(a.text) : AtText(d, a, k, i) /\ k + 1 # WireLen(d, a)
    BY <1>5
  <2>2. /\ k + 1 = LeadLen(d) + i /\ TextsFed(d, a, k) = i - 1 /\ TextsFed(d, a, k + 1) = i
        /\ BodyFed(d, a, k) = 0 /\ BodyFed(d, a, k + 1) = 0
    BY <2>1 DEF AtText, FedTo
  <2>3. Reads(l, Line("text", 0, <<a.text[i]>>, <<>>))
    BY <1>3, <2>2 DEF w
  <2>4. /\ g \in AFold /\ TextAssembled(d, a, i, g) /\ g.slots = f.slots /\ g.calls = f.calls
        /\ g.usage = f.usage /\ g.final = f.final /\ g.finalCalls = f.finalCalls
    BY <1>1, <2>2, <2>3, TextStep DEF g
  <2>5. CallsAssembled(d, a, 0, g) /\ EndAssembled(d, a, r, FALSE, g)
    BY <1>1, <2>2, <2>4 DEF CallsAssembled, EndAssembled
  <2> QED BY <2>1, <2>2, <2>4, <2>5 DEF Assembled, g
<1>6. CASE \E p \in 1..BodyLen(d, a) : AtBody(d, a, k, p) /\ k + 1 # WireLen(d, a)
  <2>1. PICK p \in 1..BodyLen(d, a) : AtBody(d, a, k, p) /\ k + 1 # WireLen(d, a)
    BY <1>6
  <2>2. /\ k + 1 = LeadLen(d) + Len(a.text) + p
        /\ TextsFed(d, a, k) = Len(a.text) /\ TextsFed(d, a, k + 1) = Len(a.text)
        /\ BodyFed(d, a, k) = p - 1 /\ BodyFed(d, a, k + 1) = p
    BY <2>1 DEF AtBody, FedTo
  <2>3. Reads(l, Body(d, a)[p])
    BY <1>3, <2>2 DEF w
  <2>4. BodyFedOne(d, a, p, f, g)
    BY <1>1, <2>2, <2>3, FragmentStep, WholeStep DEF g
  <2>5. /\ g \in AFold /\ CallsAssembled(d, a, p, g)
        /\ TextAssembled(d, a, Len(a.text), g) /\ EndAssembled(d, a, r, FALSE, g)
    BY <1>1, <2>2, <2>4 DEF BodyFedOne, TextAssembled, EndAssembled
  <2> QED BY <2>1, <2>2, <2>5 DEF Assembled, g
<1>7. CASE AtEnd(d, a, k)
  <2>1. /\ k + 1 = WireLen(d, a)
        /\ TextsFed(d, a, k) = Len(a.text) /\ TextsFed(d, a, k + 1) = Len(a.text)
        /\ BodyFed(d, a, k) = BodyLen(d, a) /\ BodyFed(d, a, k + 1) = BodyLen(d, a)
    BY <1>7 DEF AtEnd, FedTo
  <2>2. Reads(l, EndLine(d, a, r))
    BY <1>3, <2>1 DEF w
  <2>a. EndFed(d, a, r, f, g)
    BY <1>1, <2>2, EndStep DEF g
  <2>3. /\ g \in AFold /\ EndAssembled(d, a, r, TRUE, g)
        /\ g.text = f.text /\ g.out = f.out /\ g.full = f.full
        /\ g.calls = f.calls /\ g.slots = f.slots
    BY <2>a DEF EndFed
  <2>4. TextAssembled(d, a, Len(a.text), g) /\ CallsAssembled(d, a, BodyLen(d, a), g)
    BY <1>1, <2>1, <2>3 DEF TextAssembled, CallsAssembled
  <2> QED BY <2>1, <2>3, <2>4 DEF Assembled, g
<1> QED BY <1>4, <1>5, <1>6, <1>7, Regions

LEMMA NothingAssembled ==
  ASSUME NEW d \in Dialect, NEW a \in AnAnswer, NEW r \in BOOLEAN, MaxText \in Nat
  PROVE  Assembled(d, a, r, 0, NoFold)
<1>1. LeadLen(d) \in Nat /\ Len(a.text) \in Nat /\ BodyLen(d, a) \in Nat /\ 0 # WireLen(d, a)
  BY LeadFacts, TextsFacts, BodyFacts, WireFacts
<1>2. TextsFed(d, a, 0) = 0 /\ BodyFed(d, a, 0) = 0
  BY <1>1 DEF TextsFed, BodyFed, Within
<1>3. NoFold \in AFold
  <2>1. <<>> \in AText /\ <<>> \in Seq(ACall)
    BY EmptySeq DEF AText
  <2> QED BY <2>1 DEF NoFold, AFold
<1>4. /\ NoFold.text = <<>> /\ NoFold.out = <<>> /\ NoFold.full = FALSE
      /\ NoFold.calls = <<>> /\ NoFold.slots = <<>> /\ NoFold.usage = FALSE
      /\ NoFold.final = <<>> /\ NoFold.finalCalls = <<>>
  BY DEF NoFold
<1>5. Len(<<>>) = 0 /\ 1..0 = {}
  OBVIOUS
<1>6. TextAssembled(d, a, 0, NoFold)
  BY <1>4, <1>5 DEF TextAssembled
<1>7. CallsAssembled(d, a, 0, NoFold)
  <2>1. CASE d \in InFragments
    <3>1. SlotsAssembled(d, a, 0, <<>>)
      BY <1>5 DEF SlotsAssembled, TextBlock, First
    <3> QED BY <1>4, <2>1, <3>1 DEF CallsAssembled, InFragments
  <2>2. CASE d \notin InFragments
    BY <1>4, <1>5, <2>2 DEF CallsAssembled, InFragments, Dialect
  <2> QED BY <2>1, <2>2
<1>8. EndAssembled(d, a, r, FALSE, NoFold)
  BY <1>4 DEF EndAssembled
<1>9. (0 = WireLen(d, a)) = FALSE
  BY <1>1
<1> QED BY <1>2, <1>3, <1>6, <1>7, <1>8, <1>9 DEF Assembled

\* However many lines a chunk completes, folding them keeps the assembly.
LEMMA FedAssembled ==
  ASSUME NEW d \in Dialect, NEW a \in AnAnswer, NEW r \in BOOLEAN,
         MaxText \in Nat, MaxCalls \in Nat,
         NEW k \in Nat, NEW f, Assembled(d, a, r, k, f),
         NEW lines \in Seq(ALine), k + Len(lines) <= WireLen(d, a),
         \A j \in 1..Len(lines) : Reads(lines[j], Wire(d, a, r)[k + j])
  PROVE  Assembled(d, a, r, k + Len(lines), FeedAll(d, f, lines))
<1>1. PICK g : Folds(d, f, lines, g) /\ FeedAll(d, f, lines) = g[Len(lines)]
  BY FoldOfFeed
<1>2. Len(lines) \in Nat /\ WireLen(d, a) \in Nat
  BY LenProperties, WireFacts
<1> DEFINE P == {n \in Nat : n <= Len(lines) => Assembled(d, a, r, k + n, g[n])}
<1>3. 0 \in P
  BY <1>1 DEF Folds
<1>4. ASSUME NEW n \in Nat, n \in P
      PROVE  n + 1 \in P
  <2> SUFFICES ASSUME n + 1 <= Len(lines) PROVE Assembled(d, a, r, k + (n + 1), g[n + 1])
    OBVIOUS
  <2>1. Assembled(d, a, r, k + n, g[n])
    BY <1>2, <1>4
  <2>2. g[n + 1] = Feed(d, g[n], lines[n + 1])
    <3>1. n + 1 \in 1..Len(lines) /\ (n + 1) - 1 = n
      BY <1>2
    <3>2. d # "turns" /\ d # "markup"
      BY DEF Dialect
    <3> QED BY <1>1, <3>1, <3>2 DEF Folds, Takes
  <2>3. Reads(lines[n + 1], Wire(d, a, r)[(k + n) + 1])
    <3>1. n + 1 \in 1..Len(lines) /\ k + (n + 1) = (k + n) + 1
      BY <1>2
    <3> QED BY <3>1
  <2>4. k + n \in Nat /\ k + n < WireLen(d, a) /\ k + (n + 1) = (k + n) + 1
    BY <1>2
  <2>5. Assembled(d, a, r, (k + n) + 1, Feed(d, g[n], lines[n + 1]))
    BY <2>1, <2>3, <2>4, AssembledStep
  <2> QED BY <2>2, <2>4, <2>5
<1>5. Nat \subseteq P
  <2> HIDE DEF P
  <2> QED BY <1>3, <1>4, Induction
<1> QED BY <1>1, <1>2, <1>5

----------------------------------------------------------------------------
(* The end of a stream *)

NamedTo(slots, n, h) ==
  h = [i \in 0..n |-> IF i = 0 THEN <<>> ELSE KeepNamed(h[i - 1], slots[i])]

LEMMA NamedSteps ==
  ASSUME NEW slots \in Seq(ACall)
  PROVE  \E h : NamedTo(slots, Len(slots), h) /\ Named(slots) = h[Len(slots)]
<1> DEFINE T == {n \in Nat : \E h : NamedTo(slots, n, h)}
<1>1. 0 \in T
  <2>1. NamedTo(slots, 0, [i \in 0..0 |-> <<>>])
    BY DEF NamedTo
  <2> QED BY <2>1
<1>2. ASSUME NEW n \in Nat, n \in T
      PROVE  n + 1 \in T
  <2>1. PICK g : NamedTo(slots, n, g)
    BY <1>2
  <2> DEFINE last == KeepNamed(g[n], slots[n + 1])
             h == [i \in 0..(n + 1) |-> IF i = n + 1 THEN last ELSE g[i]]
  <2>2. ASSUME NEW i \in 0..(n + 1)
        PROVE  h[i] = IF i = 0 THEN <<>> ELSE KeepNamed(h[i - 1], slots[i])
    <3>1. CASE i = n + 1
      <4>1. h[i] = last /\ h[i - 1] = g[n] /\ i # 0
        BY <3>1
      <4> QED BY <3>1, <4>1
    <3>2. CASE i # n + 1
      <4>1. i \in 0..n /\ h[i] = g[i]
        BY <3>2
      <4>2. i # 0 => h[i - 1] = g[i - 1]
        BY <3>2
      <4> HIDE DEF h
      <4> QED BY <2>1, <4>1, <4>2 DEF NamedTo
    <3> QED BY <3>1, <3>2
  <2>3. NamedTo(slots, n + 1, h)
    <3>1. h = [i \in 0..(n + 1) |-> h[i]]
      OBVIOUS
    <3> HIDE DEF h
    <3> QED BY <2>2, <3>1 DEF NamedTo
  <2> QED BY <2>3
<1>3. Nat \subseteq T
  <2> HIDE DEF T
  <2> QED BY <1>1, <1>2, Induction
<1>4. Len(slots) \in Nat
  BY LenProperties
<1> DEFINE named == CHOOSE h : NamedTo(slots, Len(slots), h)
<1>5. NamedTo(slots, Len(slots), named)
  BY <1>3, <1>4
<1>6. Named(slots) = named[Len(slots)]
  BY DEF Named, NamedTo
<1> HIDE DEF named
<1> QED BY <1>5, <1>6

\* The text block has no name, and every call has an id.
LEMMA NamedFacts ==
  ASSUME NEW slots \in Seq(ACall), NEW first \in {0, 1},
         Len(slots) > 0 /\ first = 1 => slots[1] = NoCall,
         \A i \in 1..Len(slots) : i > first => slots[i].id # NoId
  PROVE  /\ Named(slots) \in Seq(ACall)
         /\ Len(Named(slots)) = IF Len(slots) > first THEN Len(slots) - first ELSE 0
         /\ \A j \in 1..Len(Named(slots)) : Named(slots)[j] = slots[first + j]
<1>1. Len(slots) \in Nat
  BY LenProperties
<1>2. PICK h : NamedTo(slots, Len(slots), h) /\ Named(slots) = h[Len(slots)]
  BY NamedSteps
<1>3. /\ h[0] = <<>>
      /\ \A i \in 1..Len(slots) : h[i] = KeepNamed(h[i - 1], slots[i])
  BY <1>1, <1>2 DEF NamedTo
<1> DEFINE Past(n) == IF n > first THEN n - first ELSE 0
           Good(n) == /\ h[n] \in Seq(ACall) /\ Len(h[n]) = Past(n)
                      /\ \A j \in 1..Past(n) : h[n][j] = slots[first + j]
           P == {n \in Nat : n <= Len(slots) => Good(n)}
<1>4. 0 \in P
  <2>1. Past(0) = 0 /\ 1..0 = {} /\ <<>> \in Seq(ACall) /\ Len(<<>>) = 0
    BY EmptySeq
  <2> HIDE DEF Past
  <2> QED BY <1>3, <2>1
<1>5. ASSUME NEW n \in Nat, n \in P
      PROVE  n + 1 \in P
  <2> SUFFICES ASSUME n + 1 <= Len(slots) PROVE Good(n + 1)
    OBVIOUS
  <2>1. /\ h[n] \in Seq(ACall) /\ Len(h[n]) = Past(n)
        /\ \A j \in 1..Past(n) : h[n][j] = slots[first + j]
    BY <1>1, <1>5
  <2>2. n + 1 \in 1..Len(slots) /\ (n + 1) - 1 = n /\ slots[n + 1] \in ACall
    BY <1>1, ElementOfSeq
  <2>3. h[n + 1] = KeepNamed(h[n], slots[n + 1])
    BY <1>3, <2>2
  <2>4. CASE n + 1 > first
    <3>1. slots[n + 1].id # NoId
      BY <2>2, <2>4
    <3>2. h[n + 1] = Append(h[n], slots[n + 1])
      BY <2>3, <3>1 DEF KeepNamed
    <3>3. Past(n + 1) = Past(n) + 1 /\ Past(n) \in Nat /\ first + (Past(n) + 1) = n + 1
      BY <2>4
    <3> HIDE DEF Past
    <3>4. /\ h[n + 1] \in Seq(ACall) /\ Len(h[n + 1]) = Past(n) + 1
          /\ \A j \in 1..Past(n) : h[n + 1][j] = h[n][j]
          /\ h[n + 1][Past(n) + 1] = slots[n + 1]
      BY <2>1, <2>2, <3>2, <3>3, AppendProperties
    <3>5. ASSUME NEW j \in 1..(Past(n) + 1)
          PROVE  h[n + 1][j] = slots[first + j]
      <4>1. CASE j = Past(n) + 1
        BY <3>3, <3>4, <4>1
      <4>2. CASE j # Past(n) + 1
        <5>1. j \in 1..Past(n)
          BY <3>3, <4>2
        <5> QED BY <2>1, <3>4, <5>1
      <4> QED BY <4>1, <4>2
    <3> QED BY <3>3, <3>4, <3>5
  <2>5. CASE ~(n + 1 > first)
    <3>1. n = 0 /\ first = 1 /\ Past(n) = 0 /\ Past(n + 1) = 0
      BY <2>5
    <3>2. slots[n + 1] = NoCall
      BY <1>1, <2>2, <3>1
    <3>3. NoCall.id = NoId /\ NoCall.name = ""
      BY DEF NoCall, Call
    <3>4. h[n + 1] = h[n]
      BY <2>3, <3>2, <3>3 DEF KeepNamed
    <3> QED BY <2>1, <3>1, <3>4
  <2> QED BY <2>4, <2>5
<1>6. Nat \subseteq P
  <2> HIDE DEF P
  <2> QED BY <1>4, <1>5, Induction
<1> QED BY <1>1, <1>2, <1>6

LEMMA FedFacts ==
  ASSUME NEW d \in Dialect, NEW a \in AnAnswer, NEW k \in Nat
  PROVE  /\ TextsFed(d, a, k) \in 0..Len(a.text)
         /\ BodyFed(d, a, k) \in 0..BodyLen(d, a)
         /\ k = WireLen(d, a) => /\ TextsFed(d, a, k) = Len(a.text)
                                 /\ BodyFed(d, a, k) = BodyLen(d, a)
<1>1. LeadLen(d) \in Nat /\ Len(a.text) \in Nat /\ BodyLen(d, a) \in Nat
  BY LeadFacts, TextsFacts, BodyFacts
<1>2. k = WireLen(d, a) => k = LeadLen(d) + Len(a.text) + BodyLen(d, a) + 1
  BY DEF WireLen
<1>3. ASSUME NEW n \in Int, NEW top \in Nat
      PROVE  Within(n, top) \in 0..top /\ (n >= top => Within(n, top) = top)
  BY DEF Within
<1> DEFINE x == k - LeadLen(d)
           y == k - LeadLen(d) - Len(a.text)
<1>4. /\ x \in Int /\ y \in Int
      /\ k = WireLen(d, a) => x >= Len(a.text) /\ y >= BodyLen(d, a)
  BY <1>1, <1>2
<1>5. /\ TextsFed(d, a, k) = Within(x, Len(a.text)) /\ BodyFed(d, a, k) = Within(y, BodyLen(d, a))
  BY DEF TextsFed, BodyFed
<1> HIDE DEF x, y
<1> QED BY <1>1, <1>3, <1>4, <1>5

\* The text of the response is the text that was shown, but for the repeated
\* output of a terminal event, and either one begins as the answer does.
LEMMA FinishText ==
  ASSUME NEW d \in Dialect, NEW a \in AnAnswer, NEW r \in BOOLEAN,
         NEW k \in Nat, NEW f, Assembled(d, a, r, k, f), ~f.full
  PROVE  LET t == Finish(d, f).text
         IN /\ t \in AText
            /\ t = f.out \/ (d = "chatgpt" /\ LikeText(t, a.text))
            /\ LikePrefix(t, a.text) /\ LikePrefix(f.out, a.text)
            /\ k = WireLen(d, a) => LikeText(t, a.text)
<1> DEFINE t == Finish(d, f).text
<1>1. /\ f.text \in Seq(Word) /\ f.out = f.text /\ Len(f.text) = TextsFed(d, a, k)
      /\ \A i \in 1..Len(f.text) : Like(f.text[i], a.text[i])
  BY DEF Assembled, TextAssembled, AFold, AText
<1>2. /\ a.text \in Seq(Word) /\ Len(a.text) \in Nat /\ DOMAIN a.text = 1..Len(a.text)
      /\ DOMAIN f.text = 1..Len(f.text) /\ Len(f.text) \in Nat
  <2>1. a.text \in Seq(Word)
    BY DEF AnAnswer, AText
  <2> QED BY <1>1, <2>1, LenProperties
<1>3. TextsFed(d, a, k) \in 0..Len(a.text) /\ (k = WireLen(d, a) => TextsFed(d, a, k) = Len(a.text))
  BY FedFacts
<1>4. ASSUME NEW s, DOMAIN s = 1..Len(s), Len(s) \in 0..Len(a.text),
             \A i \in 1..Len(s) : Like(s[i], a.text[i])
      PROVE  LikePrefix(s, a.text) /\ (Len(s) = Len(a.text) => LikeText(s, a.text))
  <2>1. /\ Len(SubSeq(a.text, 1, Len(s))) = Len(s)
        /\ \A i \in 1..Len(s) : SubSeq(a.text, 1, Len(s))[i] = a.text[i]
    <3>1. 1 \in 1..Len(a.text) + 1 /\ Len(s) \in 0..Len(a.text)
      BY <1>2, <1>4
    <3> QED BY <1>2, <1>4, <3>1, SubSeqProperties
  <2> QED BY <1>2, <1>4, <2>1 DEF LikePrefix, LikeText
<1>5. LikePrefix(f.out, a.text) /\ (k = WireLen(d, a) => LikeText(f.out, a.text))
  BY <1>1, <1>2, <1>3, <1>4
<1>6. CASE t = f.out
  BY <1>1, <1>5, <1>6 DEF AText
<1>7. CASE t # f.out
  <2>1. d = "chatgpt" /\ t = f.final /\ f.final # <<>>
    BY <1>1, <1>7 DEF Finish, OpenAIFinish, AnthropicFinish, GeminiFinish, OllamaFinish,
       ChatGptFinish, Response, Dialect
  <2>2. LikeText(t, a.text)
    BY <2>1 DEF Assembled, EndAssembled
  <2>3. t \in Seq(Word)
    BY <2>1 DEF Assembled, AFold, AText
  <2>4. DOMAIN t = 1..Len(t) /\ Len(t) = Len(a.text)
    BY <2>2, <2>3, LenProperties DEF LikeText
  <2>5. LikePrefix(t, a.text)
    BY <1>2, <1>4, <2>2, <2>4, SMTT(60) DEF LikeText
  <2> QED BY <1>5, <2>1, <2>2, <2>3, <2>5 DEF AText
<1> QED BY <1>6, <1>7

LEMMA PartIsCall ==
  ASSUME NEW slot \in ACall, NEW call \in ACall, PartOf(slot, call, Len(call.args))
  PROVE  LikeCall(slot, call)
<1>1. DOMAIN slot.args = 1..Len(slot.args)
  <2>1. slot.args \in Seq(Word)
    BY DEF ACall
  <2> QED BY <2>1, LenProperties
<1>2. /\ slot.id = call.id /\ slot.name = call.name /\ Len(slot.args) = Len(call.args)
      /\ \A x \in 1..Len(call.args) : Like(slot.args[x], call.args[x])
  BY DEF PartOf
<1> QED BY <1>1, <1>2 DEF LikeCall, LikeText

LEMMA PartIsPrefix ==
  ASSUME NEW slot \in ACall, NEW call \in ACall, NEW n \in 0..Len(call.args),
         PartOf(slot, call, n)
  PROVE  slot.id = call.id /\ slot.name = call.name /\ LikePrefix(slot.args, call.args)
<1> DEFINE s == slot.args
           u == call.args
<1>1. /\ s \in Seq(Word) /\ u \in Seq(Word) /\ DOMAIN s = 1..Len(s)
      /\ Len(u) \in Nat /\ n \in Nat
  <2>1. s \in Seq(Word) /\ u \in Seq(Word)
    BY DEF ACall
  <2> QED BY <2>1, LenProperties
<1>2. /\ slot.id = call.id /\ slot.name = call.name /\ Len(s) = n
      /\ \A x \in 1..n : Like(s[x], u[x])
  BY DEF PartOf
<1> HIDE DEF s, u
<1>3. n \in 0..Len(u) /\ n <= Len(u) /\ 1 \in 1..Len(u) + 1
  BY <1>1 DEF u
<1>4. Len(SubSeq(u, 1, n)) = n /\ \A i \in 1..n : SubSeq(u, 1, n)[i] = u[i]
  BY <1>1, <1>3, SubSeqProperties
<1>5. LikePrefix(s, u)
  BY <1>1, <1>2, <1>3, <1>4 DEF LikePrefix, LikeText
<1> QED BY <1>2, <1>5 DEF s, u

\* The calls of the assembly: those before the last as they came whole, the last
\* perhaps without the end of its arguments.
BeginsAs(c, calls) ==
  /\ c \in Seq(ACall) /\ Len(c) <= Len(calls)
  /\ \A i \in 1..Len(c) :
       \/ LikeCall(c[i], calls[i])
       \/ i = Len(c) /\ \E n \in 0..Len(calls[i].args) : PartOf(c[i], calls[i], n)

\* What is left of the slots: a prefix of the calls, all of them at the end.
LEMMA SlotsFinish ==
  ASSUME NEW d \in InFragments, NEW a \in AnAnswer, MaxCalls \in Nat,
         NEW p \in Nat, NEW slots \in Seq(ACall), SlotsAssembled(d, a, p, slots),
         \A i \in 1..Len(a.calls) : a.calls[i].id # NoId
  PROVE  /\ BeginsAs(Named(slots), a.calls)
         /\ p = BodyLen(d, a) /\ ~(d = "openai" /\ Len(a.calls) > MaxCalls)
              => LikeCalls(Named(slots), a.calls)
<1> DEFINE c == Named(slots)
           m == Len(a.calls)
           first == First(d)
           before == Before(a.calls)
<1>1. /\ a.calls \in Seq(ACall) /\ m \in Nat /\ Len(slots) \in Nat /\ first \in {0, 1}
      /\ d = "openai" => first = 0
  <2>1. a.calls \in Seq(ACall)
    BY DEF AnAnswer
  <2> QED BY <2>1, LenProperties DEF First
<1>2. /\ before[0] = 0 /\ \A i \in 0..m : before[i] \in Nat
      /\ \A i \in 1..m : before[i] = before[i - 1] + 1 + Len(a.calls[i].args)
      /\ \A i, j \in 0..m : i < j => before[i] < before[j]
      /\ BodyLen(d, a) = before[m]
  <2>1. BeforeTo(a.calls, m, before)
    BY <1>1, BeforeFacts
  <2>2. BodyLen(d, a) = before[m]
    BY DEF BodyLen, InFragments, Dialect
  <2> HIDE DEF m, before
  <2>3. /\ before \in [0..m -> Nat]
        /\ \A i \in 0..m : before[i] = IF i = 0 THEN 0 ELSE before[i - 1] + 1 + Len(a.calls[i].args)
        /\ \A i, j \in 0..m : i < j => before[i] < before[j]
    BY <2>1 DEF BeforeTo
  <2>4. 0 \in 0..m /\ \A i \in 1..m : i \in 0..m /\ i # 0
    BY <1>1
  <2> QED BY <2>2, <2>3, <2>4
<1>3. \A i \in 1..m : a.calls[i] \in ACall /\ Len(a.calls[i].args) \in Nat
  <2> SUFFICES ASSUME NEW i \in 1..m PROVE a.calls[i] \in ACall /\ Len(a.calls[i].args) \in Nat
    OBVIOUS
  <2>1. a.calls[i] \in ACall
    BY <1>1, ElementOfSeq
  <2>2. a.calls[i].args \in Seq(Word)
    BY <2>1 DEF ACall
  <2> QED BY <2>1, <2>2, LenProperties
<1>4. Len(slots) > 0 /\ first = 1 => slots[1] = NoCall
  BY DEF SlotsAssembled, TextBlock
<1>5. CASE p = 0 /\ Len(slots) <= first
  <2>1. \A i \in 1..Len(slots) : i > first => slots[i].id # NoId
    BY <1>1, <1>5
  <2>2. c \in Seq(ACall) /\ Len(c) = 0
    BY <1>1, <1>4, <1>5, <2>1, NamedFacts
  <2>a. DOMAIN c = 1..0 /\ 1..0 = {}
    BY <2>2, LenProperties
  <2>3. ASSUME p = BodyLen(d, a) PROVE LikeCalls(c, a.calls)
    <3>1. m = 0
      <4> HIDE DEF m, before
      <4> QED BY <1>1, <1>2, <1>5, <2>3
    <3> QED BY <2>2, <2>a, <3>1 DEF LikeCalls
  <2>4. BeginsAs(c, a.calls)
    BY <1>1, <2>2, <2>a DEF BeginsAs
  <2> QED BY <2>3, <2>4
<1>6. ASSUME NEW i \in 1..m, NEW q \in 0..Len(a.calls[i].args),
             p = before[i - 1] + 1 + q, SlotsCut(d, a, i, q, slots)
      PROVE  /\ BeginsAs(Named(slots), a.calls)
             /\ p = BodyLen(d, a) /\ ~(d = "openai" /\ Len(a.calls) > MaxCalls)
                  => LikeCalls(Named(slots), a.calls)
  <2>1. /\ Len(slots) = Slots(d, i)
        /\ \A j \in 1..(Len(slots) - first) :
             PartOf(slots[first + j], a.calls[j], IF j < i THEN Len(a.calls[j].args) ELSE q)
    BY <1>6 DEF SlotsCut
  <2>2. Len(slots) = IF d = "openai" /\ i > MaxCalls THEN MaxCalls ELSE first + i
    BY <2>1 DEF Slots
  <2>3. Len(slots) >= first /\ Len(slots) - first <= i
    <3> HIDE DEF m, first
    <3> QED BY <1>1, <2>2
  <2>4. ASSUME NEW x \in 1..Len(slots), x > first PROVE slots[x].id # NoId
    <3>1. x - first \in 1..(Len(slots) - first) /\ first + (x - first) = x /\ x - first \in 1..m
      <4> HIDE DEF m, first
      <4> QED BY <1>1, <2>3, <2>4
    <3>2. slots[x].id = a.calls[x - first].id
      BY <2>1, <3>1 DEF PartOf
    <3> QED BY <3>1, <3>2
  <2>5. /\ c \in Seq(ACall) /\ Len(c) = Len(slots) - first
        /\ \A j \in 1..Len(c) : c[j] = slots[first + j]
    <3>1. /\ c \in Seq(ACall)
          /\ Len(c) = IF Len(slots) > first THEN Len(slots) - first ELSE 0
          /\ \A j \in 1..Len(c) : c[j] = slots[first + j]
      BY <1>1, <1>4, <2>4, NamedFacts
    <3> HIDE DEF m, first, c
    <3> QED BY <1>1, <2>3, <3>1
  <2>6. Len(c) <= m
    <3> HIDE DEF m, first, c
    <3> QED BY <1>1, <2>3, <2>5
  <2>7. ASSUME NEW j \in 1..Len(c)
        PROVE  \/ LikeCall(c[j], a.calls[j])
               \/ j = Len(c) /\ \E n \in 0..Len(a.calls[j].args) : PartOf(c[j], a.calls[j], n)
    <3>1. j \in 1..(Len(slots) - first) /\ c[j] = slots[first + j]
      BY <2>5
    <3>2. PartOf(c[j], a.calls[j], IF j < i THEN Len(a.calls[j].args) ELSE q)
      BY <2>1, <3>1
    <3>3. j \in 1..m /\ c[j] \in ACall
      <4>1. c[j] \in ACall
        BY <2>5, ElementOfSeq
      <4> HIDE DEF m, first, c
      <4> QED BY <1>1, <2>5, <2>6, <4>1
    <3>4. CASE j < i
      BY <1>3, <3>2, <3>3, <3>4, PartIsCall
    <3>5. CASE ~(j < i)
      <4>1. j = i /\ j = Len(c)
        <5> HIDE DEF m, first, c
        <5> QED BY <1>1, <2>3, <2>5, <3>3, <3>5
      <4>2. PartOf(c[j], a.calls[j], q)
        BY <3>2, <3>5
      <4>3. q \in 0..Len(a.calls[j].args)
        BY <4>1
      <4> HIDE DEF c
      <4> QED BY <4>1, <4>2, <4>3
    <3> QED BY <3>4, <3>5
  <2>8. ASSUME p = BodyLen(d, a), ~(d = "openai" /\ m > MaxCalls)
        PROVE  LikeCalls(c, a.calls)
    <3>1. i = m /\ q = Len(a.calls[i].args)
      <4>1. p <= before[i] /\ (p = before[i] => q = Len(a.calls[i].args))
        <5>1. Len(a.calls[i].args) \in Nat /\ i - 1 \in 0..m
          BY <1>1, <1>3
        <5> HIDE DEF m, before
        <5>2. before[i] = before[i - 1] + 1 + Len(a.calls[i].args) /\ before[i - 1] \in Nat
          BY <1>2, <5>1
        <5>3. p = before[i - 1] + 1 + q
          BY <1>6
        <5> QED BY <5>1, <5>2, <5>3, SMTT(60)
      <4>2. i < m => before[i] < before[m]
        BY <1>1, <1>2, SMTT(60)
      <4>3. before[i] \in Nat /\ before[m] \in Nat
        BY <1>1, <1>2
      <4> HIDE DEF m, before
      <4> QED BY <1>1, <1>2, <2>8, <4>1, <4>2, <4>3
    <3>2. Len(c) = m
      <4> HIDE DEF m, first, c
      <4> QED BY <1>1, <2>2, <2>5, <2>8, <3>1
    <3>3. ASSUME NEW j \in 1..m PROVE LikeCall(c[j], a.calls[j])
      <4>1. (IF j < i THEN Len(a.calls[j].args) ELSE q) = Len(a.calls[j].args)
        BY <1>1, <3>1
      <4>2. PartOf(slots[first + j], a.calls[j], IF j < i THEN Len(a.calls[j].args) ELSE q)
        BY <2>1, <2>5, <3>2
      <4>3. c[j] \in ACall /\ a.calls[j] \in ACall /\ c[j] = slots[first + j]
        BY <1>3, <2>5, <3>2, ElementOfSeq
      <4>4. PartOf(c[j], a.calls[j], Len(a.calls[j].args))
        BY <4>1, <4>2, <4>3
      <4> QED BY <1>3, <4>3, <4>4, PartIsCall
    <3>4. DOMAIN c = 1..Len(c)
      BY <2>5, LenProperties
    <3> HIDE DEF c
    <3> QED BY <3>2, <3>3, <3>4 DEF LikeCalls
  <2>9. BeginsAs(c, a.calls)
    <3> HIDE DEF c
    <3> QED BY <2>5, <2>6, <2>7 DEF BeginsAs
  <2> QED BY <2>8, <2>9
<1> QED BY <1>5, <1>6 DEF SlotsAssembled

\* The calls of a response, and those of one that was received whole.
CallsGiven(d, a, ended, c) ==
  /\ Len(c) \in 0..Len(a.calls) /\ DOMAIN c = 1..Len(c)
  /\ \A i \in 1..Len(c) :
       \/ LikeCall(c[i], Whole(d, a).calls[i])
       \/ i = Len(c) /\ d \in {"openai", "anthropic"} /\ LostItsEnd(d, c[i], a.calls[i])
  /\ ended /\ ~(d = "openai" /\ Len(a.calls) > MaxCalls) => LikeCalls(c, Whole(d, a).calls)

LEMMA ObjectLike ==
  ASSUME NEW x \in ACall, NEW y \in ACall, LikeCall(x, y)
  PROVE  LikeCall(ObjectArgs(x), ObjectArgs(y))
<1>1. /\ x.id = y.id /\ x.name = y.name /\ LikeText(x.args, y.args)
      /\ x.args \in Seq(Word) /\ y.args \in Seq(Word)
  BY DEF LikeCall, ACall
<1>2. x.args = <<>> <=> y.args = <<>>
  <2>1. Len(x.args) = Len(y.args)
    BY <1>1 DEF LikeText
  <2> QED BY <1>1, <2>1, EmptySeq
<1>3. CASE x.args = <<>>
  <2>1. /\ ObjectArgs(x).id = x.id /\ ObjectArgs(x).name = x.name
        /\ ObjectArgs(x).args = <<"{}">>
        /\ ObjectArgs(y).id = y.id /\ ObjectArgs(y).name = y.name
        /\ ObjectArgs(y).args = <<"{}">>
    BY <1>2, <1>3 DEF ObjectArgs, ACall
  <2>2. LikeText(<<"{}">>, <<"{}">>)
    BY DEF LikeText, Like
  <2> QED BY <1>1, <2>1, <2>2 DEF LikeCall
<1>4. CASE x.args # <<>>
  BY <1>2, <1>4 DEF ObjectArgs
<1> QED BY <1>3, <1>4

LEMMA FinishCalls ==
  ASSUME NEW d \in Dialect, NEW a \in AnAnswer, NEW r \in BOOLEAN, MaxCalls \in Nat,
         NEW k \in Nat, NEW f, Assembled(d, a, r, k, f),
         \A i \in 1..Len(a.calls) : a.calls[i].id # NoId
  PROVE  CallsGiven(d, a, k = WireLen(d, a), Finish(d, f).calls)
<1> DEFINE c == Finish(d, f).calls
           m == Len(a.calls)
           n == BodyFed(d, a, k)
           ended == k = WireLen(d, a)
           whole == Whole(d, a).calls
<1>1. a.calls \in Seq(ACall) /\ m \in Nat /\ DOMAIN a.calls = 1..m
  <2>1. a.calls \in Seq(ACall)
    BY DEF AnAnswer
  <2> QED BY <2>1, LenProperties
<1>2. /\ f.slots \in Seq(ACall) /\ f.calls \in Seq(ACall) /\ f.finalCalls \in Seq(ACall)
      /\ CallsAssembled(d, a, n, f)
      /\ f.finalCalls = <<>> \/ LikeCalls(f.finalCalls, a.calls)
  BY DEF Assembled, AFold, EndAssembled
<1>3. n \in 0..BodyLen(d, a) /\ BodyLen(d, a) \in Nat /\ (ended => n = BodyLen(d, a))
  BY FedFacts, BodyFacts
<1>4. CASE d \in InFragments
  <2> DEFINE b == Named(f.slots)
  <2>1. SlotsAssembled(d, a, n, f.slots)
    BY <1>2, <1>4 DEF CallsAssembled, InFragments
  <2>2. /\ BeginsAs(b, a.calls)
        /\ n = BodyLen(d, a) /\ ~(d = "openai" /\ m > MaxCalls) => LikeCalls(b, a.calls)
    <3>1. n \in Nat
      BY <1>3
    <3> HIDE DEF n
    <3> QED BY <1>2, <1>4, <2>1, <3>1, SlotsFinish
  <2>3. b \in Seq(ACall) /\ Len(b) \in 0..m /\ DOMAIN b = 1..Len(b)
    <3>1. b \in Seq(ACall) /\ Len(b) <= m
      BY <2>2 DEF BeginsAs
    <3>2. Len(b) \in Nat /\ DOMAIN b = 1..Len(b)
      BY <3>1, LenProperties
    <3> HIDE DEF b, m
    <3> QED BY <1>1, <3>1, <3>2
  <2>4. CASE d = "openai"
    <3>1. c = b /\ whole = a.calls
      BY <2>4 DEF Finish, OpenAIFinish, Whole, OpenAIWhole, Response
    <3>2. ASSUME NEW i \in 1..Len(b), ~LikeCall(b[i], a.calls[i])
          PROVE  i = Len(b) /\ LostItsEnd(d, b[i], a.calls[i])
      <4>1. i = Len(b) /\ \E x \in 0..Len(a.calls[i].args) : PartOf(b[i], a.calls[i], x)
        BY <2>2, <3>2 DEF BeginsAs
      <4>2. b[i] \in ACall /\ a.calls[i] \in ACall
        <5> HIDE DEF b, m
        <5>1. i \in 1..m
          BY <1>1, <2>3
        <5> QED BY <1>1, <2>3, <5>1, ElementOfSeq DEF m
      <4> HIDE DEF b
      <4> QED BY <4>1, <4>2, PartIsPrefix DEF LostItsEnd
    <3> HIDE DEF m, n, b, c, whole
    <3>3. ended /\ ~(d = "openai" /\ m > MaxCalls) => LikeCalls(c, whole)
      BY <1>3, <2>2, <3>1
    <3> QED BY <2>3, <2>4, <3>1, <3>2, <3>3 DEF CallsGiven, c, m, whole
  <2>5. CASE d = "anthropic"
    <3>1. c = [i \in DOMAIN b |-> ObjectArgs(b[i])]
      BY <2>5 DEF Finish, AnthropicFinish, Response
    <3>2. whole = [i \in DOMAIN a.calls |-> ObjectArgs(a.calls[i])]
      BY <2>5 DEF Whole, AnthropicWhole, Response
    <3>3. Len(c) = Len(b) /\ DOMAIN c = 1..Len(b)
      <4> DEFINE R == {ObjectArgs(b[i]) : i \in 1..Len(b)}
      <4>1. c \in [1..Len(b) -> R] /\ Len(b) \in Nat
        BY <2>3, <3>1
      <4> HIDE DEF R, c, b
      <4> QED BY <4>1, FunctionIsSeq
    <3>4. Len(whole) = m
      <4> DEFINE R == {ObjectArgs(a.calls[i]) : i \in 1..m}
      <4>1. whole \in [1..m -> R]
        BY <1>1, <3>2
      <4> HIDE DEF R, m, whole
      <4> QED BY <1>1, <4>1, FunctionIsSeq
    <3>5. ASSUME NEW i \in 1..Len(b)
          PROVE  /\ b[i] \in ACall /\ a.calls[i] \in ACall
                 /\ c[i] = ObjectArgs(b[i]) /\ whole[i] = ObjectArgs(a.calls[i])
      <4>1. i \in 1..m
        <5> HIDE DEF m, b
        <5> QED BY <1>1, <2>3
      <4>2. b[i] \in ACall /\ a.calls[i] \in ACall
        <5> HIDE DEF b
        <5> QED BY <1>1, <2>3, <4>1, ElementOfSeq
      <4>3. whole[i] = ObjectArgs(a.calls[i])
        BY <1>1, <3>2, <4>1
      <4> QED BY <2>3, <3>1, <4>2, <4>3
    <3> HIDE DEF m, n, b, c, whole
    <3>6. ASSUME NEW i \in 1..Len(b), LikeCall(b[i], a.calls[i])
          PROVE  LikeCall(c[i], whole[i])
      BY <3>5, <3>6, ObjectLike
    <3>7. ASSUME NEW i \in 1..Len(b), ~LikeCall(b[i], a.calls[i])
          PROVE  i = Len(b) /\ LostItsEnd(d, c[i], a.calls[i])
      <4>1. i = Len(b) /\ \E x \in 0..Len(a.calls[i].args) : PartOf(b[i], a.calls[i], x)
        BY <2>2, <3>7 DEF BeginsAs
      <4>2. b[i] \in ACall /\ a.calls[i] \in ACall /\ c[i] = ObjectArgs(b[i])
        BY <3>5
      <4>3. b[i].id = a.calls[i].id /\ b[i].name = a.calls[i].name
            /\ LikePrefix(b[i].args, a.calls[i].args)
        BY <4>1, <4>2, PartIsPrefix
      <4>4. /\ c[i].id = b[i].id /\ c[i].name = b[i].name
            /\ c[i].args = b[i].args \/ c[i].args = <<"{}">>
        BY <4>2 DEF ObjectArgs, ACall
      <4> QED BY <2>5, <4>1, <4>3, <4>4 DEF LostItsEnd
    <3>8. ended /\ ~(d = "openai" /\ m > MaxCalls) => LikeCalls(c, whole)
      <4> SUFFICES ASSUME ended PROVE LikeCalls(c, whole)
        OBVIOUS
      <4>1. LikeCalls(b, a.calls)
        BY <1>3, <2>2, <2>5
      <4>2. Len(b) = m /\ \A i \in 1..Len(b) : LikeCall(b[i], a.calls[i])
        BY <2>3, <4>1 DEF LikeCalls, m
      <4> QED BY <3>3, <3>4, <3>6, <4>2 DEF LikeCalls
    <3>9. /\ Len(c) \in 0..m /\ DOMAIN c = 1..Len(c)
          /\ \A i \in 1..Len(c) : \/ LikeCall(c[i], whole[i])
                                  \/ i = Len(c) /\ LostItsEnd(d, c[i], a.calls[i])
      BY <2>3, <3>3, <3>6, <3>7
    <3> QED BY <2>5, <3>8, <3>9 DEF CallsGiven, m, c, whole
  <2> QED BY <1>4, <2>4, <2>5 DEF InFragments
<1>a. ASSUME Len(c) \in 0..m, DOMAIN c = 1..Len(c),
             \A i \in 1..Len(c) : LikeCall(c[i], whole[i]),
             ended => Len(c) = m, Len(whole) = m
      PROVE  CallsGiven(d, a, ended, c)
  <2> HIDE DEF c, m, whole
  <2>1. ended => LikeCalls(c, whole)
    BY <1>a DEF LikeCalls
  <2> QED BY <1>a, <2>1 DEF CallsGiven, m, whole
<1>b. /\ Numbered(a.calls) \in Seq(ACall) /\ Len(Numbered(a.calls)) = m
      /\ \A i \in 1..m : Numbered(a.calls)[i] = [a.calls[i] EXCEPT !.id = <<0, i>>]
  BY <1>1, NumberedFacts
<1>5. CASE d \in {"gemini", "code_assist"}
  <2>1. Len(f.calls) = n /\ \A i \in 1..n : LikeCall(f.calls[i], Numbered(a.calls)[i])
    BY <1>2, <1>5 DEF CallsAssembled, InFragments
  <2>2. BodyLen(d, a) = m
    BY <1>5 DEF BodyLen, InFragments
  <2>3. c = f.calls /\ whole = Numbered(a.calls)
    BY <1>5 DEF Finish, GeminiFinish, Whole, GeminiWhole, CodeAssistWhole, Response
  <2>4. DOMAIN f.calls = 1..Len(f.calls)
    BY <1>2, LenProperties
  <2> HIDE DEF c, m, n, whole
  <2>5. n \in 0..m
    BY <1>3, <2>2
  <2>6. CallsGiven(d, a, ended, c)
    BY <1>3, <1>a, <1>b, <2>1, <2>2, <2>3, <2>4, <2>5
  <2> QED BY <2>6 DEF c
<1>6. CASE d = "ollama"
  <2>1. IF n = 0 THEN f.calls = <<>> ELSE LikeCalls(f.calls, Numbered(a.calls))
    BY <1>2, <1>6 DEF CallsAssembled, InFragments
  <2>2. BodyLen(d, a) = 1
    BY <1>6 DEF BodyLen, InFragments
  <2>3. c = f.calls /\ whole = Numbered(a.calls)
    BY <1>6 DEF Finish, OllamaFinish, Whole, OllamaWhole, Response
  <2>4. DOMAIN f.calls = 1..Len(f.calls) /\ Len(f.calls) \in Nat
    BY <1>2, LenProperties
  <2> HIDE DEF c, m, n, whole
  <2>5. CASE n = 0
    <3>1. f.calls = <<>> /\ Len(<<>>) = 0 /\ ~ended
      BY <1>3, <2>1, <2>2, <2>5
    <3>2. Len(c) = 0 /\ Len(c) \in 0..m /\ DOMAIN c = 1..Len(c) /\ 1..Len(c) = {}
      BY <1>1, <2>3, <2>4, <3>1
    <3>3. CallsGiven(d, a, ended, c)
      BY <1>a, <1>b, <2>3, <3>1, <3>2
    <3> QED BY <3>3 DEF c
  <2>6. CASE n # 0
    <3>1. LikeCalls(f.calls, Numbered(a.calls))
      BY <2>1, <2>6
    <3>2. Len(c) = m /\ \A i \in 1..Len(c) : LikeCall(c[i], whole[i])
      BY <1>b, <2>3, <2>4, <3>1 DEF LikeCalls
    <3>3. Len(c) \in 0..m /\ DOMAIN c = 1..Len(c)
      BY <1>1, <2>3, <2>4, <3>2
    <3>4. CallsGiven(d, a, ended, c)
      BY <1>a, <1>b, <2>3, <3>2, <3>3
    <3> QED BY <3>4 DEF c
  <2> QED BY <2>5, <2>6
<1>7. CASE d = "chatgpt"
  <2>1. Len(f.calls) = n /\ \A i \in 1..n : LikeCall(f.calls[i], a.calls[i])
    BY <1>2, <1>7 DEF CallsAssembled, InFragments
  <2>2. BodyLen(d, a) = m
    BY <1>7 DEF BodyLen, InFragments
  <2>3. c = (IF f.finalCalls = <<>> THEN f.calls ELSE f.finalCalls) /\ whole = a.calls
    BY <1>7 DEF Finish, ChatGptFinish, Whole, OpenAIWhole, Response
  <2>4. c = f.calls \/ (c = f.finalCalls /\ LikeCalls(f.finalCalls, a.calls))
    BY <1>2, <2>3
  <2>5. DOMAIN f.calls = 1..Len(f.calls) /\ DOMAIN f.finalCalls = 1..Len(f.finalCalls)
    BY <1>2, LenProperties
  <2> HIDE DEF c, m, n, whole
  <2>6. n \in 0..m
    BY <1>3, <2>2
  <2>7. CASE c = f.calls
    <3>1. CallsGiven(d, a, ended, c)
      BY <1>3, <1>a, <2>1, <2>2, <2>3, <2>5, <2>6, <2>7 DEF m
    <3> QED BY <3>1 DEF c
  <2>8. CASE c = f.finalCalls /\ LikeCalls(f.finalCalls, a.calls)
    <3>1. Len(c) = m /\ \A i \in 1..Len(c) : LikeCall(c[i], whole[i])
      BY <2>3, <2>5, <2>8 DEF LikeCalls, m
    <3>2. Len(c) \in 0..m /\ DOMAIN c = 1..Len(c)
      BY <1>1, <2>5, <2>8, <3>1
    <3>3. CallsGiven(d, a, ended, c)
      BY <1>a, <2>3, <3>1, <3>2 DEF m
    <3> QED BY <3>3 DEF c
  <2> QED BY <2>4, <2>7, <2>8
<1> QED BY <1>4, <1>5, <1>6, <1>7 DEF Dialect, InFragments

LEMMA FinishSequence ==
  ASSUME NEW d \in Dialect, NEW a \in AnAnswer, NEW r \in BOOLEAN, MaxCalls \in Nat,
         NEW k \in Nat, NEW f, Assembled(d, a, r, k, f),
         \A i \in 1..Len(a.calls) : a.calls[i].id # NoId
  PROVE  \E S : Finish(d, f).calls \in Seq(S)
<1> DEFINE c == Finish(d, f).calls
           b == Named(f.slots)
           n == BodyFed(d, a, k)
<1>1. /\ f.slots \in Seq(ACall) /\ f.calls \in Seq(ACall) /\ f.finalCalls \in Seq(ACall)
      /\ CallsAssembled(d, a, n, f)
  BY DEF Assembled, AFold
<1>2. CASE d \in InFragments
  <2>1. SlotsAssembled(d, a, n, f.slots)
    BY <1>1, <1>2 DEF CallsAssembled, InFragments
  <2>2. b \in Seq(ACall)
    <3>1. n \in Nat
      BY FedFacts, BodyFacts
    <3> HIDE DEF n
    <3> QED BY <1>1, <1>2, <2>1, <3>1, SlotsFinish DEF BeginsAs
  <2>3. Len(b) \in Nat /\ DOMAIN b = 1..Len(b)
    BY <2>2, LenProperties
  <2>4. CASE d = "openai"
    <3>1. c = b
      BY <2>4 DEF Finish, OpenAIFinish, Response
    <3> QED BY <2>2, <3>1
  <2>5. CASE d = "anthropic"
    <3>1. c = [i \in DOMAIN b |-> ObjectArgs(b[i])]
      BY <2>5 DEF Finish, AnthropicFinish, Response
    <3> DEFINE R == {ObjectArgs(b[i]) : i \in 1..Len(b)}
    <3>2. c \in [1..Len(b) -> R]
      BY <2>3, <3>1
    <3> HIDE DEF R, c
    <3>3. c \in Seq(R)
      BY <2>3, <3>2, FunctionIsSeq
    <3> QED BY <3>3 DEF c
  <2> QED BY <1>2, <2>4, <2>5 DEF InFragments
<1>3. CASE d \notin InFragments
  <2>1. c = f.calls \/ c = f.finalCalls
    BY <1>3 DEF Finish, GeminiFinish, OllamaFinish, ChatGptFinish, Response, InFragments, Dialect
  <2> HIDE DEF c
  <2>2. c \in Seq(ACall)
    BY <1>1, <2>1
  <2> QED BY <2>2 DEF c
<1> QED BY <1>2, <1>3

LEMMA FinishUsage ==
  ASSUME NEW d \in Dialect, NEW a, NEW r, NEW k, NEW f, Assembled(d, a, r, k, f)
  PROVE  /\ Finish(d, f).usage = (k = WireLen(d, a))
         /\ Whole(d, a).usage = TRUE /\ Whole(d, a).text = a.text
<1>1. f.usage = (k = WireLen(d, a))
  BY DEF Assembled, EndAssembled
<1>2. Finish(d, f).usage = f.usage
  BY DEF Finish, OpenAIFinish, AnthropicFinish, GeminiFinish, OllamaFinish, ChatGptFinish,
     Response, Dialect
<1>3. Whole(d, a).usage = TRUE /\ Whole(d, a).text = a.text
  BY DEF Whole, OpenAIWhole, AnthropicWhole, GeminiWhole, CodeAssistWhole, OllamaWhole,
     Response, Dialect
<1> QED BY <1>1, <1>2, <1>3

\* The calls read from markup are a sequence, whatever the text.
MarkupCall(offered)  == [id : {NoId}, name : offered, args : {<<>>}]
MarkupState(offered) ==
  [open : BOOLEAN, body : AText, plain : AText, calls : Seq(MarkupCall(offered)),
   ok : BOOLEAN, offered : {offered}]

LEMMA MarkupKeeps ==
  ASSUME NEW offered, NEW s \in MarkupState(offered), NEW t \in Word
  PROVE  MarkupStep(s, t) \in MarkupState(offered)
<1>1. /\ s.open \in BOOLEAN /\ s.body \in Seq(Word) /\ s.plain \in Seq(Word)
      /\ s.calls \in Seq(MarkupCall(offered)) /\ s.offered = offered
  BY DEF MarkupState, AText
<1>2. CASE ~s.open /\ t = Open
  <2>1. MarkupStep(s, t) = [s EXCEPT !.open = TRUE, !.body = <<>>] /\ <<>> \in Seq(Word)
    BY <1>2, EmptySeq DEF MarkupStep
  <2> QED BY <2>1 DEF MarkupState, AText
<1>3. CASE ~s.open /\ t # Open
  <2>1. MarkupStep(s, t) = [s EXCEPT !.plain = Append(s.plain, t)]
    BY <1>3 DEF MarkupStep
  <2>2. Append(s.plain, t) \in Seq(Word)
    BY <1>1, AppendProperties
  <2> QED BY <2>1, <2>2 DEF MarkupState, AText
<1>4. CASE s.open /\ t # Close
  <2>1. MarkupStep(s, t) = [s EXCEPT !.body = Append(s.body, t)]
    BY <1>4 DEF MarkupStep
  <2>2. Append(s.body, t) \in Seq(Word)
    BY <1>1, AppendProperties
  <2> QED BY <2>1, <2>2 DEF MarkupState, AText
<1>5. CASE s.open /\ t = Close
  <2> DEFINE call == Call(NoId, s.body[1], <<>>)
             calls == Append(s.calls, call)
  <2>1. CASE Len(s.body) = 1 /\ s.body[1] \in s.offered
    <3>1. MarkupStep(s, t) = [s EXCEPT !.open = FALSE, !.calls = calls]
      BY <1>5, <2>1 DEF MarkupStep
    <3>2. call \in MarkupCall(offered)
      BY <1>1, <2>1 DEF Call, MarkupCall
    <3>3. calls \in Seq(MarkupCall(offered))
      <4> HIDE DEF call
      <4> QED BY <1>1, <3>2, AppendProperties
    <3> HIDE DEF calls
    <3> QED BY <3>1, <3>3 DEF MarkupState
  <2>2. CASE ~(Len(s.body) = 1 /\ s.body[1] \in s.offered)
    <3>1. MarkupStep(s, t) = [s EXCEPT !.open = FALSE, !.ok = FALSE]
      BY <1>5, <2>2 DEF MarkupStep
    <3> QED BY <3>1 DEF MarkupState
  <2> QED BY <2>1, <2>2
<1> QED BY <1>1, <1>2, <1>3, <1>4, <1>5

LEMMA MarkupFacts ==
  ASSUME NEW text \in AText, NEW offered
  PROVE  \E S : NormalizeMarkup(text, offered).calls \in Seq(S)
<1> DEFINE end == FoldLeft(MarkupStep, Scan(offered), text)
           c == NormalizeMarkup(text, offered).calls
<1>1. text \in Seq(Word) /\ Len(text) \in Nat
  BY LenProperties DEF AText
<1>2. PICK g : Folds("markup", Scan(offered), text, g) /\ end = g[Len(text)]
  BY <1>1, FoldOfMarkup
<1> DEFINE P == {n \in Nat : n <= Len(text) => g[n] \in MarkupState(offered)}
<1>3. 0 \in P
  <2>1. <<>> \in AText /\ <<>> \in Seq(MarkupCall(offered))
    BY EmptySeq DEF AText
  <2>2. Scan(offered) \in MarkupState(offered)
    BY <2>1 DEF Scan, MarkupState
  <2> QED BY <1>2, <2>2 DEF Folds
<1>4. ASSUME NEW n \in Nat, n \in P
      PROVE  n + 1 \in P
  <2> SUFFICES ASSUME n + 1 <= Len(text) PROVE g[n + 1] \in MarkupState(offered)
    OBVIOUS
  <2>1. g[n] \in MarkupState(offered)
    BY <1>1, <1>4
  <2>2. n + 1 \in 1..Len(text) /\ (n + 1) - 1 = n /\ text[n + 1] \in Word
    BY <1>1, ElementOfSeq
  <2>3. g[n + 1] = MarkupStep(g[n], text[n + 1])
    BY <1>2, <2>2 DEF Folds, Takes
  <2> QED BY <2>1, <2>2, <2>3, MarkupKeeps
<1>5. Nat \subseteq P
  <2> HIDE DEF P
  <2> QED BY <1>3, <1>4, Induction
<1>6. end \in MarkupState(offered)
  BY <1>1, <1>2, <1>5
<1>7. end.calls \in Seq(MarkupCall(offered))
  BY <1>6 DEF MarkupState
<1> HIDE DEF end
<1>8. c = <<>> \/ c = Numbered(end.calls)
  BY DEF NormalizeMarkup, MarkupError, NoMarkup, end
<1>9. <<>> \in Seq({})
  OBVIOUS
<1>10. \E S : Numbered(end.calls) \in Seq(S)
  <2> DEFINE n == Numbered(end.calls)
             R == {n[i] : i \in 1..Len(end.calls)}
  <2>1. DOMAIN end.calls = 1..Len(end.calls) /\ Len(end.calls) \in Nat
    BY <1>7, LenProperties
  <2>2. n \in [1..Len(end.calls) -> R]
    BY <2>1 DEF Numbered
  <2> HIDE DEF n, R
  <2>3. n \in Seq(R)
    BY <2>1, <2>2, FunctionIsSeq
  <2> QED BY <2>3 DEF n
<1> HIDE DEF c
<1> QED BY <1>8, <1>9, <1>10 DEF c

\* The last line adds no text.
LEMMA EndAddsNoText ==
  ASSUME NEW d \in Dialect, NEW a \in AnAnswer, NEW r \in BOOLEAN,
         NEW k \in Nat, k < WireLen(d, a), NEW f, Assembled(d, a, r, k, f),
         NEW l, Reads(l, EndLine(d, a, r))
  PROVE  Feed(d, f, l).out = f.out
<1>1. (k = WireLen(d, a)) = FALSE
  BY WireFacts
<1>2. f \in AFold /\ EndAssembled(d, a, r, FALSE, f)
  BY <1>1 DEF Assembled
<1>3. EndFed(d, a, r, f, Feed(d, f, l))
  BY <1>2, EndStep
<1> QED BY <1>3 DEF EndFed
=============================================================================
