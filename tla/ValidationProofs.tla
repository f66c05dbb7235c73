--------------------------- MODULE ValidationProofs ---------------------------
(***************************************************************************)
(* Schema.Validate returns faithful ValueObjects, for every set of         *)
(* schemas, every document and every depth of nesting.                     *)
(*                                                                         *)
(* The induction over the nesting that a proof about the Go recursion      *)
(* would need is an invariant of the stack here: each frame's data is      *)
(* faithful for the fields it has passed (Passed), its loop over an array  *)
(* has collected the objects of the elements it has passed (Collected),    *)
(* and each frame is working on what its caller is waiting for (Awaits).   *)
(***************************************************************************)
EXTENDS Validation, TLAPS

FieldAt(fr) == FieldsOf[fr.schema][fr.next]

Passed(h, fr) ==
  \A j \in DOMAIN FieldsOf[fr.schema] :
    /\ j < fr.next /\ DOMAIN fr.errs = {} =>
         Holds(h, fr.data, FieldsOf[fr.schema][j], fr.node, fr.maps)
    /\ j >= fr.next => FieldsOf[fr.schema][j].name \notin DOMAIN fr.data

InLoop(fr) ==
  /\ fr.next \in DOMAIN FieldsOf[fr.schema]
  /\ FieldAt(fr).kind = "objects"
  /\ FieldAt(fr).name \in DOMAIN Member[fr.node]
  /\ Shape[Member[fr.node][FieldAt(fr).name]] = "array"

Collected(h, fr) ==
  /\ fr.elem > 0 => InLoop(fr)
  /\ DOMAIN fr.elemErrs = {} =>
       /\ Len(fr.made) = fr.elem
       /\ \A i \in 1..fr.elem :
            BuiltFrom(h, fr.made[i], FieldAt(fr), Elements[Member[fr.node][FieldAt(fr).name]][i])

Sound(h, fr) == Passed(h, fr) /\ Collected(h, fr)

(* The frame fr works on what its caller c is waiting for.                 *)
Awaits(c, fr) ==
  LET m == Member[c.node][FieldAt(c).name]
  IN  /\ c.next \in DOMAIN FieldsOf[c.schema]
      /\ FieldAt(c).name \in DOMAIN Member[c.node]
      /\ FieldAt(c).kind \in {"object", "objects"}
      /\ FieldAt(c).kind = "object" => fr.node = m
      /\ FieldAt(c).kind = "objects" =>
           /\ Shape[m] = "array" /\ c.elem < Len(Elements[m])
           /\ fr.node = Elements[m][c.elem + 1] /\ Shape[fr.node] = "object"
      /\ fr.schema = FieldAt(c).embedded
      /\ fr.maps = <<>>

(* The frames of the stack s, given the heap h.                            *)
Chain(h, s) ==
  /\ IsSequence(s)
  /\ \A i \in DOMAIN s : FrameType(s[i]) /\ Sound(h, s[i])
  /\ \A i \in 1..(Len(s) - 1) : Awaits(s[i], s[i + 1])

Inv == TypeOK /\ Chain(heap, stack) /\ Faithful

-----------------------------------------------------------------------------
(* Maps.                                                                   *)
LEMMA PutMap ==
  ASSUME NEW D, NEW R, NEW f, PartialMap(f, D, R), NEW k \in D, NEW v \in R
  PROVE  LET g == Over(Single(k, v), f)
         IN  /\ PartialMap(g, D, R)
             /\ DOMAIN g = DOMAIN f \cup {k}
             /\ g[k] = v
             /\ \A x \in DOMAIN f : x # k => g[x] = f[x]
  BY DEF PartialMap, Over, Single

LEMMA MergeMap ==
  ASSUME NEW D, NEW R, NEW f, PartialMap(f, D, R), NEW g, PartialMap(g, D, R)
  PROVE  PartialMap(Over(g, f), D, R) /\ DOMAIN Over(g, f) = DOMAIN f \cup DOMAIN g
  BY DEF PartialMap, Over

(* A sequence of anything.                                                 *)
LEMMA SequenceOf ==
  ASSUME NEW S, NEW s \in Seq(S)
  PROVE  IsSequence(s)
  BY DEF IsSequence

LEMMA SequenceDomain ==
  ASSUME NEW s, IsSequence(s)
  PROVE  Len(s) \in Nat /\ DOMAIN s = 1..Len(s)
  BY DEF IsSequence

LEMMA SequencePush ==
  ASSUME NEW s, IsSequence(s), NEW x, NEW t, t = Append(s, x)
  PROVE  /\ IsSequence(t)
         /\ Len(t) = Len(s) + 1
         /\ DOMAIN t = DOMAIN s \cup {Len(s) + 1}
         /\ t[Len(s) + 1] = x
         /\ \A i \in DOMAIN s : t[i] = s[i]
<1> DEFINE S == {s[i] : i \in DOMAIN s} \cup {x}
<1>1. s \in Seq(S) /\ x \in S
  BY DEF IsSequence
<1> HIDE DEF S
<1>2. t \in Seq(S)
  BY <1>1
<1>3. IsSequence(t)
  BY <1>2, SequenceOf
<1>4. QED
  BY <1>1, <1>2, <1>3

LEMMA SequenceTop ==
  ASSUME NEW s, IsSequence(s), s # <<>>, NEW x, NEW t, t = [s EXCEPT ![Len(s)] = x]
  PROVE  /\ IsSequence(t)
         /\ Len(s) \in DOMAIN s
         /\ Len(t) = Len(s)
         /\ DOMAIN t = DOMAIN s
         /\ t[Len(s)] = x
         /\ \A i \in DOMAIN s : i # Len(s) => t[i] = s[i]
<1> DEFINE S == {s[i] : i \in DOMAIN s} \cup {x}
<1>1. s \in Seq(S) /\ x \in S
  BY DEF IsSequence
<1> HIDE DEF S
<1>2. Len(s) \in DOMAIN s
  BY <1>1
<1>3. t \in Seq(S) /\ Len(t) = Len(s)
  BY <1>1, <1>2
<1>4. IsSequence(t)
  BY <1>3, SequenceOf
<1>5. QED
  BY <1>1, <1>2, <1>3, <1>4

(* The callers that are left when the last frame returns, the last of them *)
(* changed.                                                                *)
LEMMA SequencePop ==
  ASSUME NEW s, IsSequence(s), Len(s) > 1, NEW x, NEW t,
         t = [i \in 1..(Len(s) - 1) |-> IF i = Len(s) - 1 THEN x ELSE s[i]]
  PROVE  /\ IsSequence(t)
         /\ Len(t) = Len(s) - 1
         /\ DOMAIN t = 1..(Len(s) - 1)
         /\ t[Len(s) - 1] = x
         /\ \A i \in 1..(Len(s) - 2) : t[i] = s[i]
<1> DEFINE S == {s[i] : i \in DOMAIN s} \cup {x}
<1>1. s \in Seq(S) /\ x \in S
  BY DEF IsSequence
<1> HIDE DEF S
<1>2. t \in Seq(S) /\ Len(t) = Len(s) - 1
  BY <1>1
<1>3. IsSequence(t)
  BY <1>2, SequenceOf
<1>4. QED
  BY <1>1, <1>2, <1>3

-----------------------------------------------------------------------------
(* The heap only grows, so what was built stays built.                     *)
Grows(h, k) == \A o \in DOMAIN h : o \in DOMAIN k /\ k[o] = h[o]

LEMMA BuiltGrows ==
  ASSUME NEW h, NEW k, Grows(h, k), NEW id, NEW f, NEW m, BuiltFrom(h, id, f, m)
  PROVE  BuiltFrom(k, id, f, m)
  BY DEF Grows, BuiltFrom

LEMMA RepresentsGrows ==
  ASSUME NEW h, NEW k, Grows(h, k), NEW v, NEW f, NEW m, Represents(h, v, f, m)
  PROVE  Represents(k, v, f, m)
  BY BuiltGrows DEF Represents

LEMMA HoldsGrows ==
  ASSUME NEW h, NEW k, Grows(h, k), NEW data, NEW f, NEW n, NEW maps, Holds(h, data, f, n, maps)
  PROVE  Holds(k, data, f, n, maps)
  BY RepresentsGrows DEF Holds

LEMMA SoundGrows ==
  ASSUME NEW h, NEW k, Grows(h, k), NEW fr, Sound(h, fr)
  PROVE  Sound(k, fr)
  BY HoldsGrows, BuiltGrows DEF Sound, Passed, Collected

LEMMA FaithfulGrows ==
  ASSUME NEW h, NEW k, Grows(h, k), NEW vo, FaithfulObject(h, vo)
  PROVE  FaithfulObject(k, vo)
  BY HoldsGrows DEF FaithfulObject

(* What data holds for a field depends on what it has under its name.      *)
LEMMA HoldsSame ==
  ASSUME NEW h, NEW d, NEW e, NEW f, NEW n, NEW maps, Holds(h, d, f, n, maps),
         f.name \in DOMAIN e <=> f.name \in DOMAIN d,
         f.name \in DOMAIN d => e[f.name] = d[f.name]
  PROVE  Holds(h, e, f, n, maps)
  BY DEF Holds

-----------------------------------------------------------------------------
(* A frame steps past its current field: with an error more, with the      *)
(* field's value stored, or, if it is optional and absent, with neither.   *)
LEMMA FieldTypes ==
  ASSUME NEW s \in Schemas, NEW i \in DOMAIN FieldsOf[s]
  PROVE  /\ FieldsOf[s][i] \in Field
         /\ FieldsOf[s][i].name \in Names(s)
         /\ Len(FieldsOf[s]) \in Nat
         /\ DOMAIN FieldsOf[s] = 1..Len(FieldsOf[s])
  BY SchemaAssumption DEF Names

LEMMA NextField ==
  ASSUME NEW fr, FrameType(fr), fr.next \in DOMAIN FieldsOf[fr.schema]
  PROVE  /\ fr.next \in Nat
         /\ fr.next + 1 \in 0..(Len(FieldsOf[fr.schema]) + 1)
         /\ FieldAt(fr) \in Field
         /\ FieldAt(fr).name \in Names(fr.schema)
<1>1. fr.schema \in Schemas
  BY DEF FrameType, CallType
<1>2. QED
  BY <1>1, FieldTypes DEF FieldAt

\* g is the frame fr at a later point of the same call.
SameCall(fr, g) ==
  IsFrame(g) /\ g.schema = fr.schema /\ g.node = fr.node /\ g.maps = fr.maps /\ g.path = fr.path

SameLoop(fr, g) == g.elem = fr.elem /\ g.made = fr.made /\ g.elemErrs = fr.elemErrs

LoopType(g) == g.elem \in Nat /\ g.made \in Seq(Nat) /\ ErrorMap(g.elemErrs)

LEMMA PastWithError ==
  ASSUME NEW h, NEW fr, FrameType(fr), Passed(h, fr), fr.next \in DOMAIN FieldsOf[fr.schema],
         NEW e, ErrorMap(e), DOMAIN e # {},
         NEW g, SameCall(fr, g), LoopType(g),
         g.data = fr.data, g.errs = Over(e, fr.errs), g.next = fr.next + 1
  PROVE  FrameType(g) /\ Passed(h, g)
<1>1. ErrorMap(g.errs) /\ DOMAIN g.errs # {}
  <2>1. PartialMap(fr.errs, ErrorKeys, Seq(ErrorKeys)) /\ PartialMap(e, ErrorKeys, Seq(ErrorKeys))
    BY DEF FrameType, ErrorMap
  <2>2. /\ PartialMap(Over(e, fr.errs), ErrorKeys, Seq(ErrorKeys))
        /\ DOMAIN Over(e, fr.errs) = DOMAIN fr.errs \cup DOMAIN e
    BY <2>1 DEF PartialMap, Over
  <2>3. QED
    BY <2>2 DEF ErrorMap
<1>2. FrameType(g)
  BY <1>1, NextField DEF FrameType, CallType, SameCall, LoopType
<1>3. Passed(h, g)
  BY <1>1, NextField, FieldTypes DEF Passed, FrameType, CallType, SameCall
<1>4. QED
  BY <1>2, <1>3

LEMMA PastWithValue ==
  ASSUME NEW h, NEW fr, FrameType(fr), Passed(h, fr), fr.next \in DOMAIN FieldsOf[fr.schema],
         NEW v \in Stored,
         NEW g, SameCall(fr, g), LoopType(g),
         g.data = Over(Single(FieldAt(fr).name, v), fr.data), g.errs = fr.errs, g.next = fr.next + 1,
         Holds(h, g.data, FieldAt(fr), fr.node, fr.maps)
  PROVE  FrameType(g) /\ Passed(h, g)
<1> DEFINE F == FieldsOf[fr.schema]
<1>1. fr.next \in Nat /\ FieldAt(fr).name \in Names(fr.schema)
  BY NextField
<1>2. /\ PartialMap(g.data, Names(fr.schema), Stored)
      /\ DOMAIN g.data = DOMAIN fr.data \cup {FieldAt(fr).name}
      /\ \A x \in DOMAIN fr.data : x # FieldAt(fr).name => g.data[x] = fr.data[x]
  <2>1. PartialMap(fr.data, Names(fr.schema), Stored)
    BY DEF FrameType
  <2>2. QED
    BY <1>1, <2>1, PutMap
<1>3. FrameType(g)
  BY <1>2, NextField DEF FrameType, CallType, SameCall, LoopType
<1>4. Passed(h, g)
  <2> SUFFICES ASSUME NEW j \in DOMAIN F
               PROVE  /\ j < g.next /\ DOMAIN g.errs = {} => Holds(h, g.data, F[j], fr.node, fr.maps)
                      /\ j >= g.next => F[j].name \notin DOMAIN g.data
    BY DEF Passed, SameCall
  <2>1. j \in Nat
    BY FieldTypes DEF FrameType, CallType
  <2>2. j # fr.next => F[j].name # FieldAt(fr).name
    BY SchemaAssumption DEF FrameType, CallType, FieldAt
  <2>3. CASE j = fr.next
    BY <1>1, <2>3 DEF FieldAt
  <2>4. CASE j < fr.next
    BY <1>1, <1>2, <2>1, <2>2, <2>4, HoldsSame DEF Passed
  <2>5. CASE j > fr.next
    BY <1>1, <1>2, <2>1, <2>2, <2>5 DEF Passed
  <2>6. QED
    BY <1>1, <2>1, <2>3, <2>4, <2>5
<1>5. QED
  BY <1>3, <1>4

LEMMA PastAbsent ==
  ASSUME NEW h, NEW fr, FrameType(fr), Passed(h, fr), fr.next \in DOMAIN FieldsOf[fr.schema],
         FieldAt(fr).name \notin DOMAIN Member[fr.node] \cup UrlKeys(fr.maps),
         ~ FieldAt(fr).required,
         NEW g, SameCall(fr, g), LoopType(g),
         g.data = fr.data, g.errs = fr.errs, g.next = fr.next + 1
  PROVE  FrameType(g) /\ Passed(h, g)
<1>1. fr.next \in Nat /\ FieldAt(fr).name \notin DOMAIN fr.data
  BY NextField DEF Passed, FieldAt
<1>2. Holds(h, fr.data, FieldAt(fr), fr.node, fr.maps)
  BY <1>1 DEF Holds
<1>3. FrameType(g)
  BY NextField DEF FrameType, CallType, SameCall, LoopType
<1>4. Passed(h, g)
  <2> SUFFICES ASSUME NEW j \in DOMAIN FieldsOf[fr.schema]
               PROVE  /\ j < g.next /\ DOMAIN g.errs = {} =>
                           Holds(h, g.data, FieldsOf[fr.schema][j], fr.node, fr.maps)
                      /\ j >= g.next => FieldsOf[fr.schema][j].name \notin DOMAIN g.data
    BY DEF Passed, SameCall
  <2>1. j \in Nat
    BY FieldTypes DEF FrameType, CallType
  <2>2. CASE j = fr.next
    BY <1>1, <1>2, <2>2 DEF FieldAt
  <2>3. CASE j # fr.next
    BY <1>1, <2>1, <2>3 DEF Passed
  <2>4. QED
    BY <2>2, <2>3
<1>5. QED
  BY <1>3, <1>4

-----------------------------------------------------------------------------
(* The loop over an array of objects.                                      *)
LEMMA NotLooping ==
  ASSUME NEW h, NEW fr, FrameType(fr), Collected(h, fr), ~ InLoop(fr), NEW g, SameLoop(fr, g)
  PROVE  Collected(h, g) /\ LoopType(g)
<1>1. fr.elem = 0 /\ LoopType(g)
  BY DEF FrameType, Collected, LoopType, SameLoop
<1>2. QED
  BY <1>1 DEF Collected, SameLoop

LEMMA NoLoop ==
  ASSUME NEW h, NEW g, g.elem = 0, g.made = <<>>, g.elemErrs = EmptyMap
  PROVE  Collected(h, g) /\ LoopType(g)
  BY DEF Collected, LoopType, ErrorMap, PartialMap, EmptyMap

(* The frame of a call that has just been made. *)
LEMMA NewFrame ==
  ASSUME NEW h, NEW s \in Schemas, NEW n \in Nodes, NEW maps, MapsType(maps),
         NEW path \in Seq(ErrorKeys), NEW g, g = Frame(s, n, maps, path)
  PROVE  FrameType(g) /\ Sound(h, g) /\ g.schema = s /\ g.node = n /\ g.maps = maps
<1>1. /\ IsFrame(g)
      /\ g.schema = s /\ g.node = n /\ g.maps = maps /\ g.path = path /\ g.next = 0
      /\ g.data = EmptyMap /\ g.errs = EmptyMap
      /\ g.elem = 0 /\ g.made = <<>> /\ g.elemErrs = EmptyMap
  BY DEF Frame, IsFrame
<1>2. Len(FieldsOf[s]) \in Nat /\ DOMAIN FieldsOf[s] = 1..Len(FieldsOf[s])
  BY SchemaAssumption
<1>3. Collected(h, g) /\ LoopType(g)
  BY <1>1, NoLoop
<1>4. FrameType(g)
  <2>1. PartialMap(g.data, Names(g.schema), Stored) /\ ErrorMap(g.errs)
    BY <1>1 DEF PartialMap, ErrorMap, EmptyMap
  <2>2. QED
    BY <1>1, <1>2, <1>3, <2>1 DEF FrameType, CallType, LoopType
<1>5. Passed(h, g)
  BY <1>1, <1>2 DEF Passed, EmptyMap
<1>6. QED
  BY <1>1, <1>3, <1>4, <1>5 DEF Sound

-----------------------------------------------------------------------------
(* The stack when its last frame changes, when a call is made, and when    *)
(* the innermost call returns.                                             *)
LEMMA AwaitsSame ==
  ASSUME NEW c, NEW fr, NEW g, Awaits(c, fr), SameCall(fr, g)
  PROVE  Awaits(c, g)
  BY DEF Awaits, SameCall

(* A place in a sequence that is not the last has one after it. *)
LEMMA BeforeLast ==
  ASSUME NEW n \in Nat, NEW i \in 1..(n - 1)
  PROVE  i \in 1..n /\ i # n /\ i + 1 \in 1..n
  OBVIOUS

LEMMA ChainTop ==
  ASSUME NEW h, NEW s, Chain(h, s), s # <<>>,
         NEW g, FrameType(g), Sound(h, g), SameCall(s[Len(s)], g),
         NEW t, IsSequence(t), Len(t) = Len(s), t[Len(s)] = g,
         \A i \in DOMAIN s : i # Len(s) => t[i] = s[i]
  PROVE  Chain(h, t)
<1>1. IsSequence(s) /\ Len(s) \in Nat /\ DOMAIN s = 1..Len(s) /\ DOMAIN t = 1..Len(s)
  BY SequenceDomain DEF Chain
<1>2. \A i \in DOMAIN t : FrameType(t[i]) /\ Sound(h, t[i])
  BY <1>1 DEF Chain
<1>3. ASSUME NEW i \in 1..(Len(s) - 1) PROVE Awaits(t[i], t[i + 1])
  <2>1. i \in 1..Len(s) /\ i # Len(s) /\ i + 1 \in 1..Len(s)
    BY <1>1, BeforeLast
  <2>2. Awaits(s[i], s[i + 1]) /\ t[i] = s[i]
    BY <1>1, <2>1 DEF Chain
  <2>3. CASE i + 1 = Len(s)
    BY <2>2, <2>3, AwaitsSame
  <2>4. CASE i + 1 # Len(s)
    BY <1>1, <2>1, <2>2, <2>4
  <2>5. QED
    BY <2>3, <2>4
<1>4. QED
  BY <1>2, <1>3 DEF Chain

LEMMA ChainPush ==
  ASSUME NEW h, NEW s, Chain(h, s), s # <<>>,
         NEW g, FrameType(g), Sound(h, g), Awaits(s[Len(s)], g),
         NEW t, IsSequence(t), Len(t) = Len(s) + 1, t[Len(s) + 1] = g,
         \A i \in DOMAIN s : t[i] = s[i]
  PROVE  Chain(h, t)
<1>1. IsSequence(s) /\ Len(s) \in Nat /\ DOMAIN s = 1..Len(s) /\ DOMAIN t = 1..(Len(s) + 1)
  BY SequenceDomain DEF Chain
<1>2. \A i \in DOMAIN t : FrameType(t[i]) /\ Sound(h, t[i])
  BY <1>1 DEF Chain
<1>3. ASSUME NEW i \in 1..(Len(t) - 1) PROVE Awaits(t[i], t[i + 1])
  <2>1. i \in DOMAIN s /\ t[i] = s[i]
    BY <1>1
  <2>2. CASE i = Len(s)
    BY <2>1, <2>2
  <2>3. CASE i # Len(s)
    <3>1. i \in 1..(Len(s) - 1)
      BY <1>1, <2>1, <2>3
    <3>2. i + 1 \in 1..Len(s)
      BY <1>1, <3>1
    <3>3. Awaits(s[i], s[i + 1])
      BY <3>1 DEF Chain
    <3>4. QED
      BY <1>1, <2>1, <3>2, <3>3
  <2>4. QED
    BY <2>2, <2>3
<1>4. QED
  BY <1>2, <1>3 DEF Chain

LEMMA ChainPop ==
  ASSUME NEW h, NEW k, Grows(h, k), NEW s, Chain(h, s), Len(s) > 1,
         NEW g, FrameType(g), Sound(k, g), SameCall(s[Len(s) - 1], g),
         NEW t, IsSequence(t), Len(t) = Len(s) - 1, t[Len(s) - 1] = g,
         \A i \in 1..(Len(s) - 2) : t[i] = s[i]
  PROVE  Chain(k, t)
<1>1. IsSequence(s) /\ Len(s) \in Nat /\ DOMAIN s = 1..Len(s) /\ DOMAIN t = 1..(Len(s) - 1)
  BY SequenceDomain DEF Chain
<1>2. ASSUME NEW i \in DOMAIN t PROVE FrameType(t[i]) /\ Sound(k, t[i])
  <2>1. i \in DOMAIN s /\ (i # Len(s) - 1 => t[i] = s[i])
    BY <1>1
  <2>2. FrameType(s[i]) /\ Sound(k, s[i])
    BY <2>1, SoundGrows DEF Chain
  <2>3. QED
    BY <2>1, <2>2
<1>3. ASSUME NEW i \in 1..(Len(t) - 1) PROVE Awaits(t[i], t[i + 1])
  <2>1. i \in 1..(Len(s) - 1) /\ i \in 1..(Len(s) - 2) /\ i + 1 \in 1..(Len(s) - 1)
    BY <1>1
  <2>2. Awaits(s[i], s[i + 1]) /\ t[i] = s[i]
    BY <2>1 DEF Chain
  <2>3. CASE i + 1 = Len(s) - 1
    BY <2>2, <2>3, AwaitsSame
  <2>4. CASE i + 1 # Len(s) - 1
    <3>1. i + 1 \in 1..(Len(s) - 2)
      BY <1>1, <2>1, <2>4
    <3>2. QED
      BY <2>2, <3>1
  <2>5. QED
    BY <2>3, <2>4
<1>4. QED
  BY <1>2, <1>3 DEF Chain

-----------------------------------------------------------------------------
(* Steps of the innermost call.                                            *)
LEMMA TopFacts ==
  ASSUME Inv, stack # <<>>
  PROVE  /\ Len(stack) \in Nat /\ Len(stack) \in DOMAIN stack
         /\ FrameType(Top) /\ Sound(heap, Top) /\ Passed(heap, Top) /\ Collected(heap, Top)
         /\ IsFrame(Top) /\ CallType(Top)
<1>1. Len(stack) \in Nat /\ Len(stack) \in DOMAIN stack
  BY DEF Inv, Chain, IsSequence
<1>2. FrameType(Top) /\ Sound(heap, Top)
  BY <1>1 DEF Inv, Chain, Top
<1>3. QED
  BY <1>1, <1>2 DEF Sound, FrameType

LEMMA InvTop ==
  ASSUME Inv, stack # <<>>, NEW g, SetTop(g), UNCHANGED <<call, heap, result>>,
         SameCall(Top, g), FrameType(g), Sound(heap, g)
  PROVE  Inv'
<1>1. Len(stack) \in DOMAIN stack
  BY TopFacts
<1>2. stack' = [stack EXCEPT ![Len(stack)] = g]
  BY DEF SetTop
<1>3. /\ IsSequence(stack') /\ Len(stack') = Len(stack) /\ stack'[Len(stack)] = g
      /\ \A i \in DOMAIN stack : i # Len(stack) => stack'[i] = stack[i]
  <2>1. IsSequence(stack)
    BY DEF Inv, Chain
  <2>2. QED
    BY <1>2, <2>1, SequenceTop
<1> HIDE <1>2
<1>4. Chain(heap, stack')
  BY <1>3, ChainTop DEF Inv, Top
<1>5. TypeOK'
  BY <1>4 DEF Inv, TypeOK, Chain
<1>6. Faithful'
  BY DEF Inv, Faithful
<1>7. Chain(heap', stack')
  BY <1>4
<1>8. QED
  BY <1>5, <1>6, <1>7 DEF Inv

LEMMA InvPush ==
  ASSUME Inv, stack # <<>>, NEW s \in Schemas, NEW n \in Nodes, NEW path \in Seq(ErrorKeys),
         NEW g, g = Frame(s, n, <<>>, path), stack' = Append(stack, g),
         UNCHANGED <<call, heap, result>>,
         g.schema = s /\ g.node = n /\ g.maps = <<>> => Awaits(Top, g)
  PROVE  Inv'
<1>1. IsSequence(stack) /\ stack # <<>>
  BY DEF Inv, Chain
<1>2. MapsType(<<>>)
  BY DEF MapsType, IsSequence
<1>3. FrameType(g) /\ Sound(heap, g) /\ g.schema = s /\ g.node = n /\ g.maps = <<>>
  BY <1>2, NewFrame
<1>4. /\ IsSequence(stack') /\ Len(stack') = Len(stack) + 1 /\ stack'[Len(stack) + 1] = g
      /\ \A i \in DOMAIN stack : stack'[i] = stack[i]
  <2>1. IsSequence(stack') /\ Len(stack') = Len(stack) + 1 /\ stack'[Len(stack) + 1] = g
    BY <1>1, SequencePush
  <2>2. \A i \in DOMAIN stack : stack'[i] = stack[i]
    BY <1>1, SequencePush
  <2>3. QED
    BY <2>1, <2>2
<1>5. Chain(heap, stack')
  BY <1>3, <1>4, ChainPush DEF Inv, Top
<1>6. TypeOK'
  BY <1>5 DEF Inv, TypeOK, Chain
<1>7. Faithful'
  BY DEF Inv, Faithful
<1>8. Chain(heap', stack')
  BY <1>5
<1>9. QED
  BY <1>6, <1>7, <1>8 DEF Inv

(* The current field of the innermost call fails. *)
LEMMA InvReject ==
  ASSUME Inv, stack # <<>>, Top.next \in DOMAIN FieldsOf[Top.schema], ~ InLoop(Top),
         NEW e, ErrorMap(e), DOMAIN e # {}, Reject(e), UNCHANGED <<call, heap, result>>
  PROVE  Inv'
<1> DEFINE g == [Top EXCEPT !.errs = Over(e, @), !.next = @ + 1]
<1>1. SetTop(g)
  BY DEF Reject
<1>2. g = [Top EXCEPT !.errs = Over(e, @), !.next = @ + 1]
  OBVIOUS
<1> HIDE DEF g
<1>3. IsFrame(Top) /\ FrameType(Top) /\ Passed(heap, Top) /\ Collected(heap, Top)
  BY TopFacts
<1>4. /\ SameCall(Top, g) /\ SameLoop(Top, g)
      /\ g.data = Top.data /\ g.errs = Over(e, Top.errs) /\ g.next = Top.next + 1
  BY <1>2, <1>3 DEF IsFrame, SameCall, SameLoop
<1>5. Collected(heap, g) /\ LoopType(g)
  BY <1>3, <1>4, NotLooping
<1>6. FrameType(g) /\ Passed(heap, g)
  BY <1>3, <1>4, <1>5, PastWithError
<1>7. QED
  BY <1>1, <1>4, <1>5, <1>6, InvTop DEF Sound

(* It is stored. *)
LEMMA InvStore ==
  ASSUME Inv, stack # <<>>, Top.next \in DOMAIN FieldsOf[Top.schema], ~ InLoop(Top),
         NEW v \in Stored, Store(v), UNCHANGED <<call, heap, result>>,
         Holds(heap, Over(Single(Current.name, v), Top.data), Current, Top.node, Top.maps)
  PROVE  Inv'
<1> DEFINE g == [Top EXCEPT !.data = Over(Single(Current.name, v), @), !.next = @ + 1]
<1>1. SetTop(g)
  BY DEF Store
<1>2. g = [Top EXCEPT !.data = Over(Single(Current.name, v), @), !.next = @ + 1]
  OBVIOUS
<1> HIDE DEF g
<1>3. IsFrame(Top) /\ FrameType(Top) /\ Passed(heap, Top) /\ Collected(heap, Top)
  BY TopFacts
<1>4. /\ SameCall(Top, g) /\ SameLoop(Top, g)
      /\ g.data = Over(Single(Current.name, v), Top.data) /\ g.errs = Top.errs
      /\ g.next = Top.next + 1
  BY <1>2, <1>3 DEF IsFrame, SameCall, SameLoop
<1>5. Collected(heap, g) /\ LoopType(g)
  BY <1>3, <1>4, NotLooping
<1>6. FieldAt(Top) = Current
  BY DEF FieldAt, Current
<1>7. FrameType(g) /\ Passed(heap, g)
  BY <1>3, <1>4, <1>5, <1>6, PastWithValue
<1>8. QED
  BY <1>1, <1>4, <1>5, <1>7, InvTop DEF Sound

-----------------------------------------------------------------------------
(* What a stored value stands for.                                         *)
LEMMA HoldsStored ==
  ASSUME NEW h, NEW d, NEW f, NEW n, NEW maps, NEW v,
         f.name \in DOMAIN Member[n] => Represents(h, v, f, Member[n][f.name]),
         f.name \notin DOMAIN Member[n] =>
           /\ f.name \in UrlKeys(maps)
           /\ v = Scalar(TextValue[f.type][UrlPair(maps)[f.name]]) /\ v.of[1] \in f.accepts
  PROVE  Holds(h, Over(Single(f.name, v), d), f, n, maps)
<1>1. /\ f.name \in DOMAIN Over(Single(f.name, v), d)
      /\ Over(Single(f.name, v), d)[f.name] = v
  BY DEF Over, Single
<1>2. QED
  BY <1>1 DEF Holds

LEMMA ErrorAtMap ==
  ASSUME NEW path \in Seq(ErrorKeys), NEW k \in ErrorKeys
  PROVE  ErrorMap(Single(k, path)) /\ DOMAIN Single(k, path) = {k}
  BY DEF ErrorMap, PartialMap, Single

(* The current field's own error key. *)
LEMMA OwnError ==
  ASSUME Inv, stack # <<>>, Top.next \in DOMAIN FieldsOf[Top.schema]
  PROVE  /\ Current \in Field
         /\ <<Current.name>> \in ErrorKeys
         /\ ErrorMap(ErrorAt(<<Current.name>>))
         /\ DOMAIN ErrorAt(<<Current.name>>) # {}
<1>1. FrameType(Top)
  BY TopFacts
<1>2. Current \in Field
  BY <1>1, NextField DEF FieldAt, Current
<1>3. Top.path \in Seq(ErrorKeys)
  BY <1>1 DEF FrameType
<1>4. Current.name \in Keys
  BY <1>2 DEF Field
<1>5. <<Current.name>> \in ErrorKeys
  BY <1>4 DEF ErrorKeys
<1>6. QED
  BY <1>2, <1>3, <1>5, ErrorAtMap DEF ErrorAt

(* StoreScalar: an accepted value is stored, any other is an error. *)
LEMMA InvScalar ==
  ASSUME Inv, stack # <<>>, Top.next \in DOMAIN FieldsOf[Top.schema], ~ InLoop(Top),
         NEW v, StoreScalar(v), UNCHANGED <<call, heap, result>>,
         v \in Current.accepts =>
           Holds(heap, Over(Single(Current.name, Scalar(v)), Top.data), Current, Top.node, Top.maps)
  PROVE  Inv'
<1>1. CASE v \in Current.accepts
  <2>1. Store(Scalar(v))
    BY <1>1 DEF StoreScalar
  <2>2. v \in Values
    BY <1>1, OwnError DEF Field
  <2>3. Scalar(v) \in Stored
    BY <2>2 DEF Scalar, Stored
  <2>4. QED
    BY <1>1, <2>1, <2>3, InvStore
<1>2. CASE v \notin Current.accepts
  <2>1. Reject(ErrorAt(<<Current.name>>))
    BY <1>2 DEF StoreScalar
  <2>2. QED
    BY <2>1, OwnError, InvReject
<1>3. QED
  BY <1>1, <1>2

-----------------------------------------------------------------------------
(* The actions, one by one.                                                *)
LEMMA BeginInv ==
  ASSUME Inv, Begin
  PROVE  Inv'
<1> DEFINE g == [Top EXCEPT !.next = 1]
<1>1. stack # <<>> /\ Top.next = 0 /\ SetTop(g) /\ UNCHANGED <<call, heap, result>>
  BY DEF Begin
<1>2. g = [Top EXCEPT !.next = 1]
  OBVIOUS
<1> HIDE DEF g
<1>3. IsFrame(Top) /\ FrameType(Top) /\ Passed(heap, Top) /\ Collected(heap, Top)
  BY <1>1, TopFacts
<1>4. /\ SameCall(Top, g) /\ SameLoop(Top, g)
      /\ g.data = Top.data /\ g.errs = Top.errs /\ g.next = 1
  BY <1>2, <1>3 DEF IsFrame, SameCall, SameLoop
<1>5. Top.schema \in Schemas
  BY <1>3 DEF FrameType, CallType
<1>6. /\ Len(FieldsOf[Top.schema]) \in Nat
      /\ DOMAIN FieldsOf[Top.schema] = 1..Len(FieldsOf[Top.schema])
  BY <1>5, SchemaAssumption
<1>7. Collected(heap, g) /\ LoopType(g)
  <2>1. ~ InLoop(Top)
    BY <1>1, <1>6 DEF InLoop
  <2>2. QED
    BY <1>3, <1>4, <2>1, NotLooping
<1>8. FrameType(g)
  BY <1>3, <1>4, <1>6, <1>7 DEF FrameType, CallType, SameCall, LoopType
<1>9. Passed(heap, g)
  BY <1>1, <1>3, <1>4, <1>6 DEF Passed, SameCall
<1>10. QED
  BY <1>1, <1>4, <1>7, <1>8, <1>9, InvTop DEF Sound

LEMMA MissingInv ==
  ASSUME Inv, Missing
  PROVE  Inv'
<1>1. /\ stack # <<>> /\ Top.next \in DOMAIN FieldsOf[Top.schema] /\ ~ Exists
      /\ Current.name \notin UrlKeys(Top.maps)
      /\ UNCHANGED <<call, heap, result>>
  BY DEF Missing
<1>2. ~ InLoop(Top) /\ FieldAt(Top) = Current
  BY <1>1 DEF InLoop, Exists, Current, FieldAt
<1>3. CASE Current.required
  <2>1. Reject(ErrorAt(<<Current.name>>))
    BY <1>3 DEF Missing
  <2>2. QED
    BY <1>1, <1>2, <2>1, OwnError, InvReject
<1>4. CASE ~ Current.required
  <2> DEFINE g == [Top EXCEPT !.next = @ + 1]
  <2>1. SetTop(g)
    BY <1>4 DEF Missing
  <2>2. g = [Top EXCEPT !.next = @ + 1]
    OBVIOUS
  <2> HIDE DEF g
  <2>3. IsFrame(Top) /\ FrameType(Top) /\ Passed(heap, Top) /\ Collected(heap, Top)
    BY <1>1, TopFacts
  <2>4. /\ SameCall(Top, g) /\ SameLoop(Top, g)
        /\ g.data = Top.data /\ g.errs = Top.errs /\ g.next = Top.next + 1
    BY <2>2, <2>3 DEF IsFrame, SameCall, SameLoop
  <2>5. Collected(heap, g) /\ LoopType(g)
    BY <1>2, <2>3, <2>4, NotLooping
  <2>6. FieldAt(Top).name \notin DOMAIN Member[Top.node] \cup UrlKeys(Top.maps)
    BY <1>1, <1>2 DEF Exists
  <2>7. FrameType(g) /\ Passed(heap, g)
    BY <1>1, <1>2, <1>4, <2>3, <2>4, <2>5, <2>6, PastAbsent
  <2>8. QED
    BY <1>1, <2>1, <2>4, <2>5, <2>7, InvTop DEF Sound
<1>5. QED
  BY <1>3, <1>4

LEMMA FromUrlInv ==
  ASSUME Inv, FromUrl
  PROVE  Inv'
<1> DEFINE v == TextValue[Current.type][UrlPair(Top.maps)[Current.name]]
<1>1. /\ stack # <<>> /\ Top.next \in DOMAIN FieldsOf[Top.schema] /\ ~ Exists
      /\ Current.name \in UrlKeys(Top.maps)
      /\ StoreScalar(v)
      /\ UNCHANGED <<call, heap, result>>
  BY DEF FromUrl
<1>2. ~ InLoop(Top)
  BY <1>1 DEF InLoop, Exists, Current, FieldAt
<1>3. Current.name \notin DOMAIN Member[Top.node]
  BY <1>1 DEF Exists
<1>4. Scalar(v).of[1] = v
  BY DEF Scalar
<1>5. v \in Current.accepts =>
        Holds(heap, Over(Single(Current.name, Scalar(v)), Top.data), Current, Top.node, Top.maps)
  BY <1>1, <1>3, <1>4, HoldsStored
<1>6. QED
  BY <1>1, <1>2, <1>5, InvScalar

LEMMA FromScalarInv ==
  ASSUME Inv, FromScalar
  PROVE  Inv'
<1> DEFINE v == JsonValue[Current.type][Here]
<1>1. /\ stack # <<>> /\ Top.next \in DOMAIN FieldsOf[Top.schema] /\ Exists
      /\ Current.kind = "scalar"
      /\ StoreScalar(v)
      /\ UNCHANGED <<call, heap, result>>
  BY DEF FromScalar, ValidatesField
<1>2. ~ InLoop(Top)
  BY <1>1 DEF InLoop, Current, FieldAt
<1>3. Current.name \in DOMAIN Member[Top.node] /\ Here = Member[Top.node][Current.name]
  BY <1>1 DEF Exists, Here
<1>4. Scalar(v).of[1] = v /\ Scalar(v).kind = "scalar"
  BY DEF Scalar
<1>5. v \in Current.accepts => Represents(heap, Scalar(v), Current, Here)
  BY <1>1, <1>4 DEF Represents
<1>6. v \in Current.accepts =>
        Holds(heap, Over(Single(Current.name, Scalar(v)), Top.data), Current, Top.node, Top.maps)
  BY <1>3, <1>5, HoldsStored
<1>7. QED
  BY <1>1, <1>2, <1>6, InvScalar

LEMMA FromArrayInv ==
  ASSUME Inv, FromArray
  PROVE  Inv'
<1> DEFINE N == Len(Elements[Here])
           value == [i \in 1..N |-> JsonValue[Current.type][Elements[Here][i]]]
           wrong == {i \in 1..N : value[i] \notin Current.accepts}
<1>1. /\ stack # <<>> /\ Top.next \in DOMAIN FieldsOf[Top.schema] /\ Exists
      /\ Current.kind = "array"
      /\ UNCHANGED <<call, heap, result>>
  BY DEF FromArray, ValidatesField
<1>2. ~ InLoop(Top)
  BY <1>1 DEF InLoop, Current, FieldAt
<1>3. Current.name \in DOMAIN Member[Top.node] /\ Here = Member[Top.node][Current.name]
  BY <1>1 DEF Exists, Here
<1>4. FrameType(Top)
  BY <1>1, TopFacts
<1>5. Here \in Nodes
  BY <1>3, <1>4, DocumentAssumption DEF FrameType, CallType, PartialMap
<1>6. N \in Nat /\ DOMAIN Elements[Here] = 1..N
  BY <1>5, DocumentAssumption
<1>7. Current \in Field
  BY <1>1, OwnError
<1>8. CASE Shape[Here] # "array"
  <2>1. Reject(ErrorAt(<<Current.name>>))
    BY <1>8 DEF FromArray
  <2>2. QED
    BY <1>1, <1>2, <2>1, OwnError, InvReject
<1>9. CASE Shape[Here] = "array" /\ wrong = {}
  <2>1. Store(Array(value))
    BY <1>9 DEF FromArray
  <2>2. \A i \in 1..N : value[i] \in Current.accepts
    BY <1>9
  <2>3. value \in Seq(Values) /\ Len(value) = N
    <3>1. Current.accepts \subseteq Values
      BY <1>7 DEF Field
    <3>2. value \in [1..N -> Values]
      BY <2>2, <3>1
    <3>3. QED
      BY <1>6, <3>2
  <2>4. \A i \in 1..N : value[i] = JsonValue[Current.type][Elements[Here][i]]
    OBVIOUS
  <2> HIDE DEF value
  <2>5. Array(value) \in Stored /\ Array(value).kind = "array" /\ Array(value).of = value
    BY <2>3 DEF Array, Stored
  <2>6. Represents(heap, Array(value), Current, Here)
    BY <1>1, <1>6, <1>9, <2>2, <2>3, <2>4, <2>5 DEF Represents
  <2>7. Holds(heap, Over(Single(Current.name, Array(value)), Top.data), Current, Top.node, Top.maps)
    BY <1>3, <2>6, HoldsStored
  <2>8. QED
    BY <1>1, <1>2, <2>1, <2>5, <2>7, InvStore
<1>10. CASE Shape[Here] = "array" /\ wrong # {}
  <2> DEFINE e == [k \in {ElementError(Current, i) : i \in wrong} |-> Top.path]
  <2>1. Reject(e)
    BY <1>10 DEF FromArray
  <2>2. ErrorMap(e) /\ DOMAIN e # {}
    <3>1. Top.path \in Seq(ErrorKeys)
      BY <1>4 DEF FrameType
    <3>2. ASSUME NEW i \in wrong PROVE ElementError(Current, i) \in ErrorKeys
      <4>1. Current.name \in Keys /\ i - 1 \in Nat
        BY <1>6, <1>7 DEF Field
      <4>2. QED
        BY <4>1 DEF ElementError, ErrorKeys
    <3>3. PICK i : i \in wrong
      BY <1>10
    <3>4. DOMAIN e = {ElementError(Current, j) : j \in wrong}
      OBVIOUS
    <3>5. e \in [DOMAIN e -> Seq(ErrorKeys)]
      BY <3>1
    <3>6. ElementError(Current, i) \in DOMAIN e
      BY <3>3, <3>4
    <3>7. DOMAIN e \subseteq ErrorKeys
      BY <3>2, <3>4
    <3> HIDE DEF e
    <3>8. QED
      BY <3>5, <3>6, <3>7 DEF ErrorMap, PartialMap
  <2> HIDE DEF e
  <2>3. QED
    BY <1>1, <1>2, <2>1, <2>2, InvReject
<1>11. QED
  BY <1>8, <1>9, <1>10

(* The field's value in the document, and the schema of a nested field. *)
LEMMA NestedFacts ==
  ASSUME Inv, NEW kind \in {"object", "objects"}, ValidatesField(kind)
  PROVE  /\ stack # <<>> /\ Top.next \in DOMAIN FieldsOf[Top.schema]
         /\ Current = FieldAt(Top) /\ Current \in Field
         /\ Current.kind = kind
         /\ Current.embedded \in Schemas
         /\ Current.name \in DOMAIN Member[Top.node]
         /\ Here = Member[Top.node][Current.name]
         /\ Here \in Nodes
         /\ Elements[Here] \in Seq(Nodes)
         /\ Top.path \in Seq(ErrorKeys)
         /\ Top.elem \in Nat
         /\ <<Current.name, Top.elem>> \in ErrorKeys
<1>1. /\ stack # <<>> /\ Top.next \in DOMAIN FieldsOf[Top.schema] /\ Exists
      /\ Current.kind = kind
  BY DEF ValidatesField
<1>2. FrameType(Top)
  BY <1>1, TopFacts
<1>3. Current = FieldAt(Top)
  BY DEF Current, FieldAt
<1>4. Current \in Field
  BY <1>1, OwnError
<1>5. Top.schema \in Schemas /\ Top.node \in Nodes /\ Top.path \in Seq(ErrorKeys) /\ Top.elem \in Nat
  BY <1>2 DEF FrameType, CallType
<1>6. Current.embedded \in Schemas
  BY <1>1, <1>5, SchemaAssumption DEF Current
<1>7. Current.name \in DOMAIN Member[Top.node] /\ Here = Member[Top.node][Current.name]
  BY <1>1 DEF Exists, Here
<1>8. Here \in Nodes
  BY <1>5, <1>7, DocumentAssumption DEF PartialMap
<1>9. Elements[Here] \in Seq(Nodes)
  BY <1>8, DocumentAssumption
<1>10. <<Current.name, Top.elem>> \in ErrorKeys
  BY <1>4, <1>5 DEF Field, ErrorKeys
<1>11. QED
  BY <1>1, <1>3, <1>4, <1>5, <1>6, <1>7, <1>8, <1>9, <1>10

LEMMA EnterObjectInv ==
  ASSUME Inv, EnterObject
  PROVE  Inv'
<1> DEFINE path == Append(Top.path, <<Current.name>>)
           g == Frame(Current.embedded, Here, <<>>, path)
<1>1. ValidatesField("object") /\ stack' = Append(stack, g) /\ UNCHANGED <<call, heap, result>>
  BY DEF EnterObject
<1>2. g = Frame(Current.embedded, Here, <<>>, path)
  OBVIOUS
<1>3. /\ stack # <<>> /\ Top.next \in DOMAIN FieldsOf[Top.schema]
      /\ Current = FieldAt(Top) /\ Current.kind = "object" /\ Current.embedded \in Schemas
      /\ Current.name \in DOMAIN Member[Top.node] /\ Here = Member[Top.node][Current.name]
      /\ Here \in Nodes /\ Top.path \in Seq(ErrorKeys)
  BY <1>1, NestedFacts
<1>4. path \in Seq(ErrorKeys)
  BY <1>1, <1>3, OwnError
<1> HIDE DEF g, path
<1>5. g.schema = Current.embedded /\ g.node = Here /\ g.maps = <<>> => Awaits(Top, g)
  BY <1>3 DEF Awaits
<1>6. QED
  BY <1>1, <1>2, <1>3, <1>4, <1>5, InvPush

LEMMA NotAnArrayInv ==
  ASSUME Inv, NotAnArray
  PROVE  Inv'
<1>1. /\ ValidatesField("objects") /\ Shape[Here] # "array"
      /\ Reject(ErrorAt(<<Current.name>>)) /\ UNCHANGED <<call, heap, result>>
  BY DEF NotAnArray
<1>2. /\ stack # <<>> /\ Top.next \in DOMAIN FieldsOf[Top.schema]
      /\ Current = FieldAt(Top) /\ Here = Member[Top.node][Current.name]
  BY <1>1, NestedFacts
<1>3. ~ InLoop(Top)
  BY <1>1, <1>2 DEF InLoop
<1>4. QED
  BY <1>1, <1>2, <1>3, OwnError, InvReject

(* The loop over an array of objects moves past an element that failed ... *)
LEMMA ElementFailed ==
  ASSUME NEW h, NEW c, FrameType(c), Sound(h, c), InLoop(c), NEW e, ErrorMap(e), DOMAIN e # {},
         NEW g, SameCall(c, g), g.next = c.next, g.data = c.data, g.errs = c.errs,
         g.made = c.made, g.elem = c.elem + 1, g.elemErrs = Over(e, c.elemErrs)
  PROVE  FrameType(g) /\ Sound(h, g)
<1>1. ErrorMap(g.elemErrs) /\ DOMAIN g.elemErrs # {}
  <2>1. PartialMap(c.elemErrs, ErrorKeys, Seq(ErrorKeys)) /\ PartialMap(e, ErrorKeys, Seq(ErrorKeys))
    BY DEF FrameType, ErrorMap
  <2>2. /\ PartialMap(Over(e, c.elemErrs), ErrorKeys, Seq(ErrorKeys))
        /\ DOMAIN Over(e, c.elemErrs) = DOMAIN c.elemErrs \cup DOMAIN e
    BY <2>1 DEF PartialMap, Over
  <2>3. QED
    BY <2>2 DEF ErrorMap
<1>2. FrameType(g)
  BY <1>1 DEF FrameType, CallType, SameCall
<1>3. Passed(h, g)
  BY DEF Sound, Passed, SameCall
<1>4. InLoop(g)
  BY DEF InLoop, FieldAt, SameCall
<1>5. QED
  BY <1>1, <1>2, <1>3, <1>4 DEF Sound, Collected

(* ... and past one whose object was built. *)
LEMMA ElementBuilt ==
  ASSUME NEW h, NEW c, FrameType(c), Sound(h, c), InLoop(c), NEW id \in Nat,
         BuiltFrom(h, id, FieldAt(c), Elements[Member[c.node][FieldAt(c).name]][c.elem + 1]),
         NEW g, SameCall(c, g), g.next = c.next, g.data = c.data, g.errs = c.errs,
         g.made = IF DOMAIN c.elemErrs = {} THEN Append(c.made, id) ELSE c.made,
         g.elem = c.elem + 1, g.elemErrs = c.elemErrs
  PROVE  FrameType(g) /\ Sound(h, g)
<1>1. c.elem \in Nat /\ c.made \in Seq(Nat) /\ g.made \in Seq(Nat)
  BY DEF FrameType
<1>2. FrameType(g)
  BY <1>1 DEF FrameType, CallType, SameCall
<1>3. Passed(h, g)
  BY DEF Sound, Passed, SameCall
<1>4. InLoop(g) /\ FieldAt(g) = FieldAt(c)
  BY DEF InLoop, FieldAt, SameCall
<1>5. ASSUME DOMAIN g.elemErrs = {}
      PROVE  /\ Len(g.made) = g.elem
             /\ \A i \in 1..g.elem :
                  BuiltFrom(h, g.made[i], FieldAt(g), Elements[Member[g.node][FieldAt(g).name]][i])
  <2>1. Len(c.made) = c.elem /\ g.made = Append(c.made, id)
    BY <1>5 DEF Sound, Collected
  <2>2. Len(g.made) = g.elem
    BY <1>1, <2>1
  <2>3. ASSUME NEW i \in 1..g.elem
        PROVE  BuiltFrom(h, g.made[i], FieldAt(c), Elements[Member[c.node][FieldAt(c).name]][i])
    <3>1. CASE i = c.elem + 1
      <4>1. g.made[i] = id
        BY <1>1, <2>1, <3>1
      <4>2. QED
        BY <3>1, <4>1
    <3>2. CASE i # c.elem + 1
      <4>1. i \in 1..c.elem
        BY <1>1, <3>2
      <4>2. g.made[i] = c.made[i]
        BY <1>1, <2>1, <4>1
      <4>3. QED
        BY <1>5, <4>1, <4>2 DEF Sound, Collected
    <3>3. QED
      BY <3>1, <3>2
  <2>4. QED
    BY <1>4, <2>2, <2>3 DEF SameCall
<1>6. QED
  BY <1>2, <1>3, <1>4, <1>5 DEF Sound, Collected

LEMMA EnterElementInv ==
  ASSUME Inv, EnterElement
  PROVE  Inv'
<1> DEFINE element == Elements[Here][Top.elem + 1]
           key == <<Current.name, Top.elem>>
<1>1. /\ ValidatesField("objects") /\ Shape[Here] = "array" /\ Top.elem < Len(Elements[Here])
      /\ UNCHANGED <<call, heap, result>>
  BY DEF EnterElement
<1>2. /\ stack # <<>> /\ Top.next \in DOMAIN FieldsOf[Top.schema]
      /\ Current = FieldAt(Top) /\ Current.kind = "objects" /\ Current.embedded \in Schemas
      /\ Current.name \in DOMAIN Member[Top.node] /\ Here = Member[Top.node][Current.name]
      /\ Elements[Here] \in Seq(Nodes)
      /\ Top.path \in Seq(ErrorKeys) /\ Top.elem \in Nat /\ key \in ErrorKeys
  BY <1>1, NestedFacts
<1>3. element \in Nodes
  BY <1>1, <1>2
<1>4. CASE Shape[element] = "object"
  <2> DEFINE path == Append(Top.path, key)
             g == Frame(Current.embedded, element, <<>>, path)
  <2>1. stack' = Append(stack, g)
    BY <1>4 DEF EnterElement
  <2>2. g = Frame(Current.embedded, element, <<>>, path)
    OBVIOUS
  <2>3. path \in Seq(ErrorKeys)
    BY <1>2
  <2> HIDE DEF g, path
  <2>4. g.schema = Current.embedded /\ g.node = element /\ g.maps = <<>> => Awaits(Top, g)
    BY <1>1, <1>2, <1>4 DEF Awaits
  <2> HIDE DEF element
  <2>5. QED
    BY <1>1, <1>2, <1>3, <2>1, <2>2, <2>3, <2>4, InvPush
<1>5. CASE Shape[element] # "object"
  <2> DEFINE g == [Top EXCEPT !.elemErrs = Over(ErrorAt(key), @), !.elem = @ + 1]
  <2>1. SetTop(g)
    BY <1>5 DEF EnterElement
  <2>2. g = [Top EXCEPT !.elemErrs = Over(ErrorAt(key), @), !.elem = @ + 1]
    OBVIOUS
  <2> HIDE DEF g, key
  <2>3. IsFrame(Top) /\ FrameType(Top) /\ Sound(heap, Top)
    BY <1>2, TopFacts
  <2>4. /\ SameCall(Top, g) /\ g.next = Top.next /\ g.data = Top.data /\ g.errs = Top.errs
        /\ g.made = Top.made /\ g.elem = Top.elem + 1
        /\ g.elemErrs = Over(ErrorAt(key), Top.elemErrs)
    BY <2>2, <2>3 DEF IsFrame, SameCall
  <2>5. ErrorMap(ErrorAt(key)) /\ DOMAIN ErrorAt(key) # {}
    BY <1>2, ErrorAtMap DEF ErrorAt
  <2>6. InLoop(Top)
    BY <1>1, <1>2 DEF InLoop
  <2>7. FrameType(g) /\ Sound(heap, g)
    BY <2>3, <2>4, <2>5, <2>6, ElementFailed
  <2>8. QED
    BY <1>1, <1>2, <2>1, <2>4, <2>7, InvTop
<1>6. QED
  BY <1>4, <1>5

LEMMA EndArrayInv ==
  ASSUME Inv, EndArray
  PROVE  Inv'
<1>1. /\ ValidatesField("objects") /\ Shape[Here] = "array" /\ Top.elem = Len(Elements[Here])
      /\ UNCHANGED <<call, heap, result>>
  BY DEF EndArray
<1>2. /\ stack # <<>> /\ Top.next \in DOMAIN FieldsOf[Top.schema]
      /\ Current = FieldAt(Top) /\ Current.kind = "objects"
      /\ Current.name \in DOMAIN Member[Top.node] /\ Here = Member[Top.node][Current.name]
      /\ Elements[Here] \in Seq(Nodes)
  BY <1>1, NestedFacts
<1>3. IsFrame(Top) /\ FrameType(Top) /\ Passed(heap, Top) /\ Collected(heap, Top)
  BY <1>2, TopFacts
<1>4. CASE DOMAIN Top.elemErrs = {}
  <2> DEFINE g == [AfterArray EXCEPT !.data = Over(Single(Current.name, Objects(Top.made)), @)]
  <2>1. SetTop(g)
    BY <1>4 DEF EndArray
  <2>2. g = [AfterArray EXCEPT !.data = Over(Single(Current.name, Objects(Top.made)), @)]
    OBVIOUS
  <2> HIDE DEF g
  <2>3. /\ SameCall(Top, g) /\ g.next = Top.next + 1 /\ g.errs = Top.errs
        /\ g.data = Over(Single(Current.name, Objects(Top.made)), Top.data)
        /\ g.elem = 0 /\ g.made = <<>> /\ g.elemErrs = EmptyMap
    BY <2>2, <1>3 DEF IsFrame, SameCall, AfterArray
  <2>4. Collected(heap, g) /\ LoopType(g)
    BY <2>3, NoLoop
  <2>5. Top.made \in Seq(Nat)
    BY <1>3 DEF FrameType
  <2>6. /\ Objects(Top.made) \in Stored
        /\ Objects(Top.made).kind = "objects" /\ Objects(Top.made).of = Top.made
    BY <2>5 DEF Objects, Stored
  <2>7. /\ Len(Top.made) = Top.elem
        /\ \A i \in 1..Top.elem : BuiltFrom(heap, Top.made[i], Current, Elements[Here][i])
    BY <1>2, <1>3, <1>4 DEF Collected
  <2>8. DOMAIN Elements[Here] = 1..Top.elem
    BY <1>1, <1>2
  <2>9. Represents(heap, Objects(Top.made), Current, Here)
    BY <1>1, <1>2, <2>6, <2>7, <2>8 DEF Represents
  <2>10. Holds(heap, g.data, FieldAt(Top), Top.node, Top.maps)
    BY <1>2, <2>3, <2>9, HoldsStored
  <2>11. FrameType(g) /\ Passed(heap, g)
    BY <1>2, <1>3, <2>3, <2>4, <2>6, <2>10, PastWithValue
  <2>12. QED
    BY <1>1, <1>2, <2>1, <2>3, <2>4, <2>11, InvTop DEF Sound
<1>5. CASE DOMAIN Top.elemErrs # {}
  <2> DEFINE g == [AfterArray EXCEPT !.errs = Over(Top.elemErrs, @)]
  <2>1. SetTop(g)
    BY <1>5 DEF EndArray
  <2>2. g = [AfterArray EXCEPT !.errs = Over(Top.elemErrs, @)]
    OBVIOUS
  <2> HIDE DEF g
  <2>3. /\ SameCall(Top, g) /\ g.next = Top.next + 1 /\ g.data = Top.data
        /\ g.errs = Over(Top.elemErrs, Top.errs)
        /\ g.elem = 0 /\ g.made = <<>> /\ g.elemErrs = EmptyMap
    BY <2>2, <1>3 DEF IsFrame, SameCall, AfterArray
  <2>4. Collected(heap, g) /\ LoopType(g)
    BY <2>3, NoLoop
  <2>5. ErrorMap(Top.elemErrs)
    BY <1>3 DEF FrameType
  <2>6. FrameType(g) /\ Passed(heap, g)
    BY <1>2, <1>3, <1>5, <2>3, <2>4, <2>5, PastWithError
  <2>7. QED
    BY <1>1, <1>2, <2>1, <2>3, <2>4, <2>6, InvTop DEF Sound
<1>6. QED
  BY <1>4, <1>5

-----------------------------------------------------------------------------
(* Returning.  The object k[id] was built for the frame fr.                *)
BuiltFor(k, id, fr) ==
  /\ id \in DOMAIN k
  /\ k[id].schema = fr.schema /\ k[id].node = fr.node /\ k[id].maps = fr.maps

LEMMA DeliveredSound ==
  ASSUME NEW k, NEW c, FrameType(c), Sound(k, c), NEW fr, Awaits(c, fr),
         NEW ok \in BOOLEAN, NEW id \in Nat, NEW errs, ErrorMap(errs),
         ok => BuiltFor(k, id, fr), ~ ok => DOMAIN errs # {},
         NEW g, g = Delivered(c, ok, id, errs)
  PROVE  FrameType(g) /\ Sound(k, g) /\ SameCall(c, g)
<1> DEFINE f == FieldAt(c)
           m == Member[c.node][f.name]
           key == <<f.name, c.elem>>
<1>1. IsFrame(c) /\ Passed(k, c) /\ Collected(k, c)
  BY DEF FrameType, Sound
<1>2. /\ c.next \in DOMAIN FieldsOf[c.schema] /\ f.name \in DOMAIN Member[c.node]
      /\ f.kind \in {"object", "objects"}
  BY DEF Awaits
<1>3. f \in Field
  BY <1>2, NextField
<1>4. CASE f.kind = "object" /\ ok
  <2>1. /\ SameCall(c, g) /\ SameLoop(c, g)
        /\ g.data = Over(Single(f.name, Object(id)), c.data) /\ g.errs = c.errs
        /\ g.next = c.next + 1
    BY <1>1, <1>4 DEF Delivered, FieldAt, IsFrame, SameCall, SameLoop
  <2>2. Collected(k, g) /\ LoopType(g)
    BY <1>1, <1>4, <2>1, NotLooping DEF InLoop
  <2>3. /\ Object(id) \in Stored /\ Object(id).kind = "object"
        /\ Len(Object(id).of) = 1 /\ Object(id).of[1] = id
    BY DEF Object, Stored
  <2>4. BuiltFrom(k, id, f, m)
    BY <1>4 DEF Awaits, BuiltFor, BuiltFrom
  <2>5. Represents(k, Object(id), f, m)
    BY <1>4, <2>3, <2>4 DEF Represents
  <2>6. Holds(k, g.data, f, c.node, c.maps)
    BY <1>2, <2>1, <2>5, HoldsStored
  <2>7. FrameType(g) /\ Passed(k, g)
    BY <1>1, <1>2, <2>1, <2>2, <2>3, <2>6, PastWithValue
  <2>8. QED
    BY <2>1, <2>2, <2>7 DEF Sound
<1>5. CASE f.kind = "object" /\ ~ ok
  <2>1. /\ SameCall(c, g) /\ SameLoop(c, g)
        /\ g.data = c.data /\ g.errs = Over(errs, c.errs) /\ g.next = c.next + 1
    BY <1>1, <1>5 DEF Delivered, FieldAt, IsFrame, SameCall, SameLoop
  <2>2. Collected(k, g) /\ LoopType(g)
    BY <1>1, <1>5, <2>1, NotLooping DEF InLoop
  <2>3. FrameType(g) /\ Passed(k, g)
    BY <1>1, <1>2, <1>5, <2>1, <2>2, PastWithError
  <2>4. QED
    BY <2>1, <2>2, <2>3 DEF Sound
<1>6. CASE f.kind = "objects" /\ ok
  <2>1. /\ SameCall(c, g) /\ g.next = c.next /\ g.data = c.data /\ g.errs = c.errs
        /\ g.made = IF DOMAIN c.elemErrs = {} THEN Append(c.made, id) ELSE c.made
        /\ g.elem = c.elem + 1 /\ g.elemErrs = c.elemErrs
    BY <1>1, <1>6 DEF Delivered, FieldAt, IsFrame, SameCall
  <2>2. InLoop(c) /\ BuiltFrom(k, id, f, Elements[m][c.elem + 1])
    BY <1>2, <1>6 DEF Awaits, BuiltFor, BuiltFrom, InLoop
  <2>3. QED
    BY <2>1, <2>2, ElementBuilt
<1>7. CASE f.kind = "objects" /\ ~ ok
  <2> DEFINE e == Single(key, Append(c.path, key))
  <2>1. /\ SameCall(c, g) /\ g.next = c.next /\ g.data = c.data /\ g.errs = c.errs
        /\ g.made = c.made
        /\ g.elem = c.elem + 1 /\ g.elemErrs = Over(e, c.elemErrs)
    BY <1>1, <1>7 DEF Delivered, FieldAt, IsFrame, SameCall
  <2>2. InLoop(c)
    BY <1>2, <1>7 DEF Awaits, InLoop
  <2>3. key \in ErrorKeys /\ c.path \in Seq(ErrorKeys)
    BY <1>3 DEF FrameType, Field, ErrorKeys
  <2> HIDE DEF key
  <2>4. Append(c.path, key) \in Seq(ErrorKeys)
    BY <2>3
  <2>5. ErrorMap(e) /\ DOMAIN e # {}
    BY <2>3, <2>4, ErrorAtMap
  <2> HIDE DEF e
  <2>6. QED
    BY <2>1, <2>2, <2>5, ElementFailed
<1>8. QED
  BY <1>2, <1>4, <1>5, <1>6, <1>7

LEMMA InvReturn ==
  ASSUME Inv, stack # <<>>, NEW ok \in BOOLEAN, NEW id \in Nat, NEW errs, ErrorMap(errs),
         Return(ok, id, errs), UNCHANGED call,
         Grows(heap, heap'), IsSequence(heap'),
         \A i \in DOMAIN heap' : ObjectType(heap'[i]) /\ FaithfulObject(heap', heap'[i]),
         ok => BuiltFor(heap', id, Top),
         Len(stack) > 1 /\ ~ ok => DOMAIN errs # {}
  PROVE  Inv'
<1>1. IsSequence(stack) /\ Len(stack) \in Nat /\ Len(stack) \in DOMAIN stack /\ Len(stack) >= 1
  BY TopFacts, SequenceDomain DEF Inv, Chain
<1>2. Faithful'
  BY DEF Faithful
<1>3. CASE Len(stack) = 1
  <2>1. stack' = <<>> /\ result' = [done |-> TRUE, ok |-> ok, vo |-> id, errs |-> errs]
    BY <1>3 DEF Return
  <2>2. Chain(heap', stack')
    BY <2>1 DEF Chain, IsSequence
  <2>3. TypeOK'
    BY <2>1, <2>2 DEF Inv, TypeOK, Chain
  <2>4. QED
    BY <1>2, <2>2, <2>3 DEF Inv
<1>4. CASE Len(stack) > 1
  <2> DEFINE n == Len(stack) - 1
             g == Delivered(stack[n], ok, id, errs)
  <2>1. /\ stack' = [i \in 1..n |-> IF i = n THEN Delivered(stack[i], ok, id, errs) ELSE stack[i]]
        /\ result' = result
    <3>1. Len(stack) # 1
      BY <1>1, <1>4
    <3>2. QED
      BY <3>1, Zenon DEF Return
  <2>2. stack' = [i \in 1..n |-> IF i = n THEN g ELSE stack[i]]
    BY <2>1
  <2>3. g = Delivered(stack[n], ok, id, errs)
    OBVIOUS
  <2> HIDE DEF g
  <2>4. n \in 1..(Len(stack) - 1) /\ n \in 1..Len(stack) /\ n + 1 = Len(stack)
    BY <1>1, <1>4
  <2>5. FrameType(stack[n]) /\ Sound(heap, stack[n])
    <3>1. DOMAIN stack = 1..Len(stack)
      BY <1>1, SequenceDomain
    <3>2. QED
      BY <2>4, <3>1 DEF Inv, Chain
  <2>6. Awaits(stack[n], Top)
    BY <2>4 DEF Inv, Chain, Top
  <2>7. Sound(heap', stack[n])
    BY <2>5, SoundGrows
  <2>8. FrameType(g) /\ Sound(heap', g) /\ SameCall(stack[n], g)
    BY <1>4, <2>3, <2>5, <2>6, <2>7, DeliveredSound
  <2>9. IsSequence(stack') /\ Len(stack') = n /\ stack'[n] = g
    <3>1. IsSequence(stack')
      BY <1>1, <1>4, <2>2, SequencePop
    <3>2. stack'[n] = g
      BY <2>2, <2>4
    <3>3. Len(stack') = n
      BY <1>1, <1>4, <2>2
    <3>4. QED
      BY <3>1, <3>2, <3>3
  <2>10. \A i \in 1..(Len(stack) - 2) : stack'[i] = stack[i]
    BY <1>1, <1>4, <2>2, SequencePop
  <2>11. Chain(heap', stack')
    BY <1>4, <2>8, <2>9, <2>10, ChainPop DEF Inv
  <2>12. TypeOK'
    BY <2>1, <2>11 DEF Inv, TypeOK, Chain
  <2>13. QED
    BY <1>2, <2>11, <2>12 DEF Inv
<1>5. QED
  BY <1>1, <1>3, <1>4

(* A call that is refused before its fields are looked at. *)
LEMMA InvRefuse ==
  ASSUME Inv, stack # <<>>, NEW errs, ErrorMap(errs), Return(FALSE, 0, errs), UNCHANGED <<call, heap>>,
         Len(stack) > 1 => DOMAIN errs # {}
  PROVE  Inv'
<1>1. /\ IsSequence(heap') /\ Grows(heap, heap')
      /\ \A i \in DOMAIN heap' : ObjectType(heap'[i]) /\ FaithfulObject(heap', heap'[i])
  BY DEF Inv, TypeOK, Faithful, Grows
<1>2. QED
  BY <1>1, InvReturn

(* What a nested call is given is a node of a valid document. *)
LEMMA NestedValid ==
  ASSUME Inv, Len(stack) > 1
  PROVE  Shape[Top.node] # "invalid"
<1> DEFINE n == Len(stack) - 1
<1>1. IsSequence(stack) /\ Len(stack) \in Nat /\ DOMAIN stack = 1..Len(stack)
  BY SequenceDomain DEF Inv, Chain
<1>2. n \in 1..(Len(stack) - 1) /\ n \in DOMAIN stack /\ n + 1 = Len(stack)
  BY <1>1
<1>3. FrameType(stack[n]) /\ Awaits(stack[n], Top)
  BY <1>2 DEF Inv, Chain, Top
<1>4. stack[n].node \in Nodes /\ stack[n].elem \in Nat
  BY <1>3 DEF FrameType, CallType
<1>5. PICK m : /\ m \in Nodes /\ Shape[m] # "invalid"
               /\ Top.node = m \/ \E i \in DOMAIN Elements[m] : Top.node = Elements[m][i]
  <2> DEFINE m == Member[stack[n].node][FieldAt(stack[n]).name]
  <2>1. m \in Nodes /\ Shape[m] # "invalid"
    BY <1>3, <1>4, DocumentAssumption DEF Awaits, PartialMap
  <2>2. CASE FieldAt(stack[n]).kind = "object"
    BY <1>3, <2>1, <2>2 DEF Awaits
  <2>3. CASE FieldAt(stack[n]).kind = "objects"
    <3>1. stack[n].elem < Len(Elements[m]) /\ Top.node = Elements[m][stack[n].elem + 1]
      BY <1>3, <2>3 DEF Awaits
    <3>2. Elements[m] \in Seq(Nodes)
      BY <2>1, DocumentAssumption
    <3> HIDE DEF m, n
    <3>3. stack[n].elem + 1 \in DOMAIN Elements[m]
      BY <1>4, <3>1, <3>2
    <3>4. QED
      BY <2>1, <3>1, <3>3
  <2>4. QED
    BY <1>3, <2>2, <2>3 DEF Awaits
<1>6. QED
  BY <1>5, DocumentAssumption

LEMMA InvalidJsonInv ==
  ASSUME Inv, InvalidJson
  PROVE  Inv'
<1>1. ErrorMap(EmptyMap)
  BY DEF ErrorMap, PartialMap, EmptyMap
<1>2. Len(stack) > 1 => FALSE
  BY NestedValid DEF InvalidJson
<1>3. QED
  BY <1>1, <1>2, InvRefuse DEF InvalidJson

LEMMA FailFirstInv ==
  ASSUME Inv, FailFirst
  PROVE  Inv'
<1> DEFINE keys == Conflicts(Top.schema, Top.node, Top.maps)
           errs == [k \in {<<x>> : x \in keys} |-> Top.path]
<1>1. stack # <<>> /\ keys # {} /\ Return(FALSE, 0, errs) /\ UNCHANGED <<call, heap>>
  BY DEF FailFirst
<1>2. FrameType(Top)
  BY <1>1, TopFacts
<1>3. keys \subseteq Keys
  <2>1. /\ Top.node \in Nodes /\ PartialMap(Member[Top.node], Keys, Nodes)
        /\ \A i \in DOMAIN Top.maps : PartialMap(Top.maps[i], Keys, Texts)
    BY <1>2, DocumentAssumption DEF FrameType, CallType, MapsType
  <2>2. JsonKeys(Top.node) \subseteq Keys
    BY <2>1, DocumentAssumption DEF JsonKeys, PartialMap
  <2>3. UrlKeys(Top.maps) \subseteq Keys
    BY <2>1 DEF UrlKeys, PartialMap
  <2>4. QED
    BY <2>2, <2>3 DEF Conflicts
<1>4. ErrorMap(errs) /\ DOMAIN errs # {}
  <2>1. Top.path \in Seq(ErrorKeys)
    BY <1>2 DEF FrameType
  <2>2. DOMAIN errs = {<<x>> : x \in keys} /\ errs \in [DOMAIN errs -> Seq(ErrorKeys)]
    BY <2>1
  <2> HIDE DEF errs
  <2>3. DOMAIN errs \subseteq ErrorKeys /\ DOMAIN errs # {}
    BY <1>1, <1>3, <2>2 DEF ErrorKeys
  <2>4. QED
    BY <2>2, <2>3 DEF ErrorMap, PartialMap
<1> HIDE DEF errs, keys
<1>5. QED
  BY <1>1, <1>4, InvRefuse

(* The whole object is faithful once each of its fields is: the URL        *)
(* parameters that a lenient schema adds take no field's place.            *)
LEMMA FinishFaithful ==
  ASSUME NEW h, NEW fr, FrameType(fr), Passed(h, fr), DOMAIN fr.errs = {},
         fr.next = Len(FieldsOf[fr.schema]) + 1,
         NEW extra, extra = [k \in (IF fr.schema \in Lenient THEN UrlKeys(fr.maps) ELSE {}) |->
                               Text(UrlPair(fr.maps)[k])],
         NEW o, o = [schema |-> fr.schema, node |-> fr.node, maps |-> fr.maps,
                     data |-> Over(fr.data, extra)]
  PROVE  ObjectType(o) /\ FaithfulObject(h, o)
<1> DEFINE X == IF fr.schema \in Lenient THEN UrlKeys(fr.maps) ELSE {}
<1>1. /\ o.schema = fr.schema /\ o.node = fr.node /\ o.maps = fr.maps
      /\ o.data = Over(fr.data, extra)
      /\ o = [schema |-> o.schema, node |-> o.node, maps |-> o.maps, data |-> o.data]
  OBVIOUS
<1>2. fr.schema \in Schemas /\ PartialMap(fr.data, Names(fr.schema), Stored) /\ MapsType(fr.maps)
  BY DEF FrameType, CallType
<1>3. DOMAIN o.data = DOMAIN fr.data \cup X /\ DOMAIN extra = X
  BY <1>1 DEF Over
<1>4. \A k \in DOMAIN fr.data : o.data[k] = fr.data[k]
  BY <1>1 DEF Over
<1>5. \A k \in X \ DOMAIN fr.data : o.data[k] = Text(UrlPair(fr.maps)[k])
  BY <1>1 DEF Over
<1>6. ObjectType(o)
  <2>1. Names(fr.schema) \subseteq Keys
    BY <1>2, FieldTypes DEF Names, Field
  <2>2. X \subseteq Keys
    BY <1>2 DEF MapsType, PartialMap, UrlKeys
  <2>3. ASSUME NEW k \in X PROVE Text(UrlPair(fr.maps)[k]) \in Stored
    <3>1. k \in UrlKeys(fr.maps)
      OBVIOUS
    <3>2. PICK i \in DOMAIN fr.maps : k \in DOMAIN fr.maps[i]
      BY <3>1 DEF UrlKeys
    <3> DEFINE j == CHOOSE j \in DOMAIN fr.maps : k \in DOMAIN fr.maps[j]
    <3>3. j \in DOMAIN fr.maps /\ k \in DOMAIN fr.maps[j]
      BY <3>2
    <3>4. UrlPair(fr.maps)[k] = fr.maps[j][k]
      BY <3>1 DEF UrlPair
    <3>5. fr.maps[j][k] \in Texts
      BY <1>2, <3>3 DEF MapsType, PartialMap
    <3>6. QED
      BY <3>4, <3>5 DEF Text, Stored
  <2>4. \A k \in DOMAIN o.data : o.data[k] \in Stored
    BY <1>2, <1>3, <1>4, <1>5, <2>3 DEF PartialMap
  <2>5. o.data \in [DOMAIN o.data -> Stored]
    <3>1. o.data = [k \in DOMAIN o.data |-> o.data[k]]
      BY <1>1 DEF Over
    <3>2. QED
      BY <2>4, <3>1
  <2>6. PartialMap(o.data, Keys, Stored)
    BY <1>2, <1>3, <2>1, <2>2, <2>5 DEF PartialMap
  <2>7. CallType(o)
    BY <1>1 DEF FrameType, CallType
  <2>8. QED
    BY <1>1, <2>6, <2>7 DEF ObjectType
<1>7. ASSUME NEW i \in DOMAIN FieldsOf[fr.schema]
      PROVE  Holds(h, o.data, FieldsOf[fr.schema][i], fr.node, fr.maps)
  <2> DEFINE f == FieldsOf[fr.schema][i]
  <2>1. i < fr.next
    BY <1>2, FieldTypes
  <2>2. Holds(h, fr.data, f, fr.node, fr.maps)
    BY <2>1 DEF Passed
  <2>3. f.name \in X => f.name \in DOMAIN fr.data
    BY <2>2 DEF Holds
  <2>4. f.name \in DOMAIN o.data <=> f.name \in DOMAIN fr.data
    BY <1>3, <2>3
  <2> HIDE DEF f
  <2>5. Holds(h, o.data, f, fr.node, fr.maps)
    BY <1>4, <2>2, <2>4, HoldsSame
  <2>6. QED
    BY <2>5 DEF f
<1>8. DOMAIN o.data \subseteq Names(fr.schema) \cup X
  BY <1>2, <1>3 DEF PartialMap
<1>9. ASSUME fr.schema \in Lenient, NEW k \in UrlKeys(fr.maps) \ Names(fr.schema)
      PROVE  k \in DOMAIN o.data /\ o.data[k] = Text(UrlPair(fr.maps)[k])
  <2>1. k \in X \ DOMAIN fr.data
    BY <1>2, <1>9 DEF PartialMap
  <2>2. QED
    BY <1>3, <1>5, <2>1
<1>10. FaithfulObject(h, o)
  BY <1>1, <1>7, <1>8, <1>9 DEF FaithfulObject
<1>11. QED
  BY <1>6, <1>10

LEMMA FinishInv ==
  ASSUME Inv, Finish
  PROVE  Inv'
<1>1. stack # <<>> /\ Top.next = Len(FieldsOf[Top.schema]) + 1 /\ UNCHANGED call
  BY DEF Finish
<1>2. FrameType(Top) /\ Passed(heap, Top)
  BY <1>1, TopFacts
<1>3. ErrorMap(Top.errs) /\ ErrorMap(EmptyMap)
  BY <1>2 DEF FrameType, ErrorMap, PartialMap, EmptyMap
<1>4. CASE DOMAIN Top.errs # {}
  <2>1. heap' = heap /\ Return(FALSE, 0, Top.errs)
    BY <1>4 DEF Finish
  <2>2. QED
    BY <1>1, <1>3, <1>4, <2>1, InvRefuse
<1>5. CASE DOMAIN Top.errs = {}
  <2> DEFINE extra == [k \in (IF Top.schema \in Lenient THEN UrlKeys(Top.maps) ELSE {}) |->
                         Text(UrlPair(Top.maps)[k])]
             o == [schema |-> Top.schema, node |-> Top.node, maps |-> Top.maps,
                   data |-> Over(Top.data, extra)]
  <2>1. heap' = Append(heap, o) /\ Return(TRUE, Len(heap) + 1, EmptyMap)
    <3>1. DOMAIN UrlPair(Top.maps) = UrlKeys(Top.maps)
      BY DEF UrlPair
    <3>2. QED
      BY <1>5, <3>1 DEF Finish
  <2>2. /\ extra = [k \in (IF Top.schema \in Lenient THEN UrlKeys(Top.maps) ELSE {}) |->
                      Text(UrlPair(Top.maps)[k])]
        /\ o = [schema |-> Top.schema, node |-> Top.node, maps |-> Top.maps,
                data |-> Over(Top.data, extra)]
    OBVIOUS
  <2> HIDE DEF extra, o
  <2>3. ObjectType(o) /\ FaithfulObject(heap, o)
    BY <1>1, <1>2, <1>5, <2>2, FinishFaithful
  <2>4. IsSequence(heap) /\ Len(heap) \in Nat /\ DOMAIN heap = 1..Len(heap)
    BY SequenceDomain DEF Inv, TypeOK
  <2>5. /\ IsSequence(heap') /\ DOMAIN heap' = DOMAIN heap \cup {Len(heap) + 1}
        /\ heap'[Len(heap) + 1] = o
    BY <2>1, <2>4, SequencePush
  <2>6. \A i \in DOMAIN heap : heap'[i] = heap[i]
    BY <2>1, <2>4, SequencePush
  <2>7. Grows(heap, heap')
    BY <2>5, <2>6 DEF Grows
  <2>8. ASSUME NEW i \in DOMAIN heap'
        PROVE  ObjectType(heap'[i]) /\ FaithfulObject(heap', heap'[i])
    <3>1. CASE i \in DOMAIN heap
      <4>1. ObjectType(heap[i]) /\ FaithfulObject(heap, heap[i])
        BY <3>1 DEF Inv, TypeOK, Faithful
      <4>2. QED
        BY <2>6, <2>7, <3>1, <4>1, FaithfulGrows
    <3>2. CASE i = Len(heap) + 1
      BY <2>3, <2>5, <2>7, <3>2, FaithfulGrows
    <3>3. QED
      BY <2>5, <3>1, <3>2
  <2>9. BuiltFor(heap', Len(heap) + 1, Top)
    BY <2>2, <2>5 DEF BuiltFor
  <2>10. Len(heap) + 1 \in Nat
    BY <2>4
  <2>11. QED
    BY <1>1, <1>3, <2>1, <2>5, <2>7, <2>8, <2>9, <2>10, InvReturn
<1>6. QED
  BY <1>4, <1>5

-----------------------------------------------------------------------------
LEMMA InvInit == Init => Inv
<1> SUFFICES ASSUME Init PROVE Inv
  OBVIOUS
<1> DEFINE g == Frame(call.schema, call.node, call.maps, <<>>)
<1>1. CallType(call)
  BY CallAssumption DEF Init
<1>2. g = Frame(call.schema, call.node, call.maps, <<>>) /\ stack = <<g>>
  BY DEF Init
<1> HIDE DEF g
<1>3. FrameType(g) /\ Sound(heap, g)
  <2>1. call.schema \in Schemas /\ call.node \in Nodes /\ MapsType(call.maps)
    BY <1>1 DEF CallType
  <2>2. PICK path \in Seq(ErrorKeys) : path = <<>>
    <3>1. <<>> \in Seq(ErrorKeys)
      OBVIOUS
    <3>2. QED
      BY <3>1, Zenon
  <2>3. g = Frame(call.schema, call.node, call.maps, path)
    BY <1>2, <2>2
  <2>4. QED
    BY <2>1, <2>3, NewFrame
<1>4. Chain(heap, stack)
  <2>1. IsSequence(stack) /\ DOMAIN stack = {1} /\ stack[1] = g /\ Len(stack) = 1
    BY <1>2 DEF IsSequence
  <2>2. QED
    BY <1>3, <2>1 DEF Chain
<1>5. heap = <<>> /\ IsSequence(heap) /\ DOMAIN heap = {}
  BY DEF Init, IsSequence
<1>6. ErrorMap(result.errs) /\ result.done \in BOOLEAN /\ result.ok \in BOOLEAN /\ result.vo \in Nat
  BY DEF Init, ErrorMap, PartialMap, EmptyMap
<1>7. TypeOK
  BY <1>1, <1>4, <1>5, <1>6 DEF TypeOK, Chain
<1>8. Faithful
  BY <1>5 DEF Faithful
<1>9. QED
  BY <1>4, <1>7, <1>8 DEF Inv

LEMMA InvStep == Inv /\ [Next]_vars => Inv'
<1> SUFFICES ASSUME Inv, [Next]_vars PROVE Inv'
  OBVIOUS
<1>1. CASE UNCHANGED vars
  BY <1>1 DEF vars, Inv, TypeOK, Chain, Faithful
<1>2. CASE Next
  BY <1>2, InvalidJsonInv, FailFirstInv, BeginInv, MissingInv, FromUrlInv, FromScalarInv,
     FromArrayInv, EnterObjectInv, NotAnArrayInv, EnterElementInv, EndArrayInv, FinishInv
     DEF Next
<1>3. QED
  BY <1>1, <1>2

(* The inductive invariant of Schema.Validate. *)
THEOREM Invariance == Spec => []Inv
<1>1. QED
  BY InvInit, InvStep, PTL DEF Spec

(* Type correctness of the validation stack machine. *)
THEOREM TypeCorrect == Spec => []TypeOK
<1>1. Inv => TypeOK
  BY DEF Inv
<1>2. QED
  BY <1>1, Invariance, PTL

(* Whatever the schemas, the document and the depth of nesting: a          *)
(* ValueObject that Validate has returned holds exactly what the document  *)
(* and the URL say.                                                        *)
THEOREM ValidateIsFaithful == Spec => []Faithful
<1>1. Inv => Faithful
  BY DEF Inv
<1>2. QED
  BY <1>1, Invariance, PTL

=============================================================================
