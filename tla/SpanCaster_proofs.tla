------------------------- MODULE SpanCaster_proofs -------------------------
(***************************************************************************)
(* Proofs about SpanCaster, for any number of casters and of vectors.  The *)
(* argument: no vector has two owners, and a span refers to its caster's   *)
(* own vector or to its argument, unless a copy is in its past.            *)
(***************************************************************************)
EXTENDS SpanCaster, TLAPS

Allocated == {"own"} \X (1..vectors)

(* What is gone was a vector once, or the memory that an argument has      *)
(* moved away from.                                                        *)
FreedInv == \A v \in freed : v \in Allocated \/ v \in Sources \X {0}

(* What a caster owns is there, and its alone.                             *)
OwnInv ==
  /\ \A c \in Casters : list_caster_[c] # Nowhere =>
       c \in alive /\ list_caster_[c] \in Allocated \ freed
  /\ \A c, d \in Casters :
       c # d /\ list_caster_[c] # Nowhere => list_caster_[c] # list_caster_[d]

AtSource(c, region) == region \in {<<from[c], 0>>, <<from[c], 1>>}

(* Where a span is, and why it was allowed to be there.                    *)
SpanInv ==
  /\ \A s \in Sources : memory[s] \in {<<s, 0>>, <<s, 1>>}
  /\ \A c \in usable :
       /\ from[c] \in Sources
       /\ list_caster_[c] = Nowhere => AtSource(c, value_[c])
       /\ list_caster_[c] # Nowhere => type.const /\ convert[c]
       /\ list_caster_[c] # Nowhere /\ c \notin copied => value_[c] = list_caster_[c]
       /\ ~type.const => from[c] # "readonly_array"

IInv == TypeOK /\ FreedInv /\ OwnInv /\ SpanInv

LEMMA RegionsDistinct ==
  /\ \A n, m \in Nat : <<"own", n>> = <<"own", m>> => n = m
  /\ \A n \in Nat : <<"own", n>> # Nowhere
  /\ \A s \in Sources, i \in {0, 1}, n \in Nat :
       <<s, i>> # <<"own", n>> /\ <<s, i>> # Nowhere
  /\ \A s, r \in Sources, i, j \in {0, 1} : <<s, i>> = <<r, j>> => s = r /\ i = j
BY DEF Nowhere, Sources

(* The next vector is new: neither owned nor freed.                        *)
LEMMA FreshIsFresh ==
  ASSUME TypeOK, FreedInv, vectors < MaxVectors, vectors' = vectors + 1
  PROVE  /\ FreshVector \in Regions /\ FreshVector # Nowhere
         /\ FreshVector \notin Allocated /\ FreshVector \notin freed
         /\ Allocated' = Allocated \cup {FreshVector}
         /\ vectors' \in 0..MaxVectors
<1>1. vectors \in Nat /\ vectors + 1 \in 1..MaxVectors
  BY MaxVectorsAssumption DEF TypeOK
<1>2. FreshVector \in Regions /\ FreshVector # Nowhere
  BY <1>1, RegionsDistinct DEF FreshVector, Regions
<1>3. FreshVector \notin Allocated
  BY <1>1, RegionsDistinct DEF FreshVector, Allocated
<1>4. FreshVector \notin Sources \X {0}
  BY <1>1 DEF FreshVector, Sources
<1>5. 1..(vectors + 1) = (1..vectors) \cup {vectors + 1}
  BY <1>1
<1>6. Allocated' = Allocated \cup {FreshVector}
  BY <1>5 DEF Allocated, FreshVector
<1> QED BY <1>1, <1>2, <1>3, <1>4, <1>6 DEF FreedInv

(* A caster whose vector goes, if it had one, gets a new one.              *)
LEMMA FreshOwned ==
  ASSUME TypeOK, OwnInv, NEW c \in Casters, NEW v,
         v # Nowhere, v \notin Allocated, v \notin freed,
         Allocated' = Allocated \cup {v},
         alive' = alive \cup {c}, freed' = freed \cup Owned(c),
         list_caster_' = [list_caster_ EXCEPT ![c] = v]
  PROVE  OwnInv'
<1>1. /\ list_caster_'[c] = v
      /\ \A e \in Casters \ {c} : list_caster_'[e] = list_caster_[e]
  BY DEF TypeOK
<1>2. v \notin Owned(c) /\ Owned(c) \subseteq Allocated
  BY DEF OwnInv, Owned
<1>3. ASSUME NEW e \in Casters, list_caster_'[e] # Nowhere
      PROVE  e \in alive' /\ list_caster_'[e] \in Allocated' \ freed'
  <2>1. CASE e = c
    BY <1>1, <1>2, <2>1
  <2>2. CASE e # c
    <3>1. list_caster_'[e] = list_caster_[e] /\ list_caster_[e] # list_caster_[c]
      BY <1>1, <1>3, <2>2 DEF OwnInv
    <3> QED BY <1>3, <3>1 DEF OwnInv, Owned
  <2> QED BY <2>1, <2>2
<1>4. ASSUME NEW e \in Casters, NEW f \in Casters, e # f, list_caster_'[e] # Nowhere
      PROVE  list_caster_'[e] # list_caster_'[f]
  <2>1. \A g \in Casters : list_caster_[g] # v
    BY DEF OwnInv
  <2> QED BY <1>1, <1>4, <2>1 DEF OwnInv
<1> QED BY <1>3, <1>4 DEF OwnInv

LEMMA InitIInv == Init => IInv
<1> SUFFICES ASSUME Init PROVE IInv
  OBVIOUS
<1>1. TypeOK
  BY MaxVectorsAssumption DEF Init, TypeOK, Regions
<1>2. FreedInv /\ OwnInv /\ SpanInv
  BY DEF Init, FreedInv, OwnInv, SpanInv, Allocated
<1> QED BY <1>1, <1>2 DEF IInv

LEMMA LoadIInv ==
  ASSUME IInv, NEW c \in Casters, NEW s \in Sources, NEW may \in BOOLEAN, Load(c, s, may)
  PROVE  IInv'
<1> USE DEF IInv
<1>1. /\ c \notin alive /\ c \notin usable /\ c \notin copied
      /\ alive' = alive \cup {c} /\ usable' = usable \cup {c}
      /\ from' = [from EXCEPT ![c] = s] /\ convert' = [convert EXCEPT ![c] = may]
      /\ UNCHANGED <<type, copied, memory, freed>>
      /\ list_caster_[c] = Nowhere
  BY DEF Load, TypeOK, OwnInv
<1>2. CASE /\ BufferFits(s) \/ VectorFits(s)
           /\ value_' = [value_ EXCEPT ![c] = memory[s]]
           /\ UNCHANGED <<list_caster_, vectors>>
  <2>1. TypeOK'
    BY <1>1, <1>2 DEF TypeOK
  <2>2. FreedInv' /\ OwnInv'
    BY <1>1, <1>2 DEF FreedInv, OwnInv, Allocated
  <2>3. ~type.const => s # "readonly_array"
    BY <1>2 DEF BufferFits, VectorFits
  <2>4. SpanInv'
    BY <1>1, <1>2, <2>3 DEF TypeOK, SpanInv, AtSource
  <2> QED BY <2>1, <2>2, <2>4
<1>3. CASE /\ MayConvert(s, may)
           /\ vectors < MaxVectors
           /\ vectors' = vectors + 1
           /\ list_caster_' = [list_caster_ EXCEPT ![c] = FreshVector]
           /\ value_' = [value_ EXCEPT ![c] = FreshVector]
  <2>1. /\ FreshVector \in Regions /\ FreshVector # Nowhere
        /\ FreshVector \notin Allocated /\ FreshVector \notin freed
        /\ Allocated' = Allocated \cup {FreshVector}
        /\ vectors' \in 0..MaxVectors
    BY <1>3, FreshIsFresh
  <2>2. TypeOK'
    BY <1>1, <1>3, <2>1 DEF TypeOK
  <2>3. FreedInv'
    BY <1>1, <2>1 DEF FreedInv
  <2>4. freed' = freed \cup Owned(c)
    BY <1>1 DEF Owned
  <2>5. OwnInv'
    BY <1>1, <1>3, <2>1, <2>4, FreshOwned
  <2>6. SpanInv'
    BY <1>1, <1>3, <2>1 DEF TypeOK, SpanInv, AtSource, MayConvert
  <2> QED BY <2>2, <2>3, <2>5, <2>6
<1> QED BY <1>2, <1>3 DEF Load

LEMMA DestroyIInv ==
  ASSUME IInv, NEW c \in Casters, Destroy(c)
  PROVE  IInv'
<1> USE DEF IInv, Destroy
<1>1. Owned(c) \subseteq Allocated /\ Owned(c) \subseteq Regions /\ Allocated' = Allocated
  BY DEF Owned, OwnInv, TypeOK, Allocated
<1>2. TypeOK'
  BY <1>1 DEF TypeOK
<1>3. FreedInv'
  BY <1>1 DEF FreedInv
<1>4. OwnInv'
  BY <1>1 DEF TypeOK, OwnInv, Owned
<1>5. SpanInv'
  BY DEF TypeOK, SpanInv, AtSource
<1> QED BY <1>2, <1>3, <1>4, <1>5

LEMMA MoveIInv ==
  ASSUME IInv, NEW c \in Casters, NEW d \in Casters, Move(c, d)
  PROVE  IInv'
<1> USE DEF IInv, Move, SameLoad
<1>1. /\ Owned(d) \subseteq Allocated /\ Owned(d) \subseteq Regions /\ Allocated' = Allocated
      /\ c \in alive /\ c \in usable /\ d # c
  BY DEF Owned, OwnInv, TypeOK, Allocated
<1>2. TypeOK'
  BY <1>1 DEF TypeOK
<1>3. FreedInv'
  BY <1>1 DEF FreedInv
<1>4. /\ list_caster_'[d] = list_caster_[c] /\ list_caster_'[c] = Nowhere
      /\ \A e \in Casters \ {c, d} : list_caster_'[e] = list_caster_[e]
      /\ list_caster_[c] # Nowhere => list_caster_[c] \notin Owned(d)
  BY <1>1 DEF TypeOK, OwnInv, Owned
<1>5. freed' = freed \cup Owned(d) /\ alive' = alive \cup {d}
  OBVIOUS
<1>6. OwnInv'
  <2> HIDE DEF Move, SameLoad, IInv
  <2>1. ASSUME NEW e \in Casters, list_caster_'[e] # Nowhere
        PROVE  /\ \E g \in Casters \ {d} : list_caster_'[e] = list_caster_[g]
               /\ e \in alive' /\ list_caster_'[e] \in Allocated' \ freed'
    <3>1. PICK g \in Casters \ {d} :
             list_caster_'[e] = list_caster_[g] /\ (e = d \/ e = g)
      BY <1>1, <1>4, <2>1
    <3>2. list_caster_[g] # list_caster_[d]
      BY <2>1, <3>1 DEF OwnInv, IInv
    <3> QED BY <1>1, <1>5, <2>1, <3>1, <3>2 DEF OwnInv, Owned, IInv
  <2>2. ASSUME NEW e \in Casters, NEW f \in Casters, e # f, list_caster_'[e] # Nowhere
        PROVE  list_caster_'[e] # list_caster_'[f]
    <3>1. CASE f = c
      BY <1>4, <2>2, <3>1
    <3>2. CASE e = d /\ f # c
      BY <1>1, <1>4, <2>2, <3>2 DEF OwnInv, IInv
    <3>3. CASE e # d /\ f # c
      BY <1>1, <1>4, <2>2, <3>3 DEF OwnInv, IInv
    <3> QED BY <3>1, <3>2, <3>3
  <2> QED BY <2>1, <2>2 DEF OwnInv
<1>7. SpanInv'
  BY <1>1, <1>4 DEF TypeOK, SpanInv, AtSource
<1> QED BY <1>2, <1>3, <1>6, <1>7

LEMMA CopyIInv ==
  ASSUME IInv, NEW c \in Casters, NEW d \in Casters, Copy(c, d)
  PROVE  IInv'
<1> USE DEF IInv, SameLoad
<1>1. /\ Owned(d) \subseteq Allocated /\ Owned(d) \subseteq Regions
      /\ c \in alive /\ c \in usable /\ d # c
      /\ alive' = alive \cup {d} /\ usable' = usable \cup {d}
      /\ freed' = freed \cup Owned(d)
      /\ from' = [from EXCEPT ![d] = from[c]]
      /\ convert' = [convert EXCEPT ![d] = convert[c]]
      /\ value_' = [value_ EXCEPT ![d] = value_[c]]
      /\ UNCHANGED <<type, memory>>
  BY DEF Copy, Owned, OwnInv, TypeOK
<1>2. CASE /\ list_caster_[c] = Nowhere
           /\ copied' = IF c \in copied THEN copied \cup {d} ELSE copied \ {d}
           /\ list_caster_' = [list_caster_ EXCEPT ![d] = Nowhere]
           /\ UNCHANGED vectors
  <2>1. Allocated' = Allocated
    BY <1>2 DEF Allocated
  <2>2. TypeOK'
    BY <1>1, <1>2 DEF TypeOK
  <2>3. FreedInv'
    BY <1>1, <2>1 DEF FreedInv
  <2>4. OwnInv'
    BY <1>1, <1>2, <2>1 DEF TypeOK, OwnInv, Owned
  <2>5. SpanInv'
    BY <1>1, <1>2 DEF TypeOK, SpanInv, AtSource
  <2> QED BY <2>2, <2>3, <2>4, <2>5
<1>3. CASE /\ list_caster_[c] # Nowhere
           /\ vectors < MaxVectors
           /\ vectors' = vectors + 1
           /\ list_caster_' = [list_caster_ EXCEPT ![d] = FreshVector]
           /\ copied' = copied \cup {d}
  <2>1. /\ FreshVector \in Regions /\ FreshVector # Nowhere
        /\ FreshVector \notin Allocated /\ FreshVector \notin freed
        /\ Allocated' = Allocated \cup {FreshVector}
        /\ vectors' \in 0..MaxVectors
    BY <1>3, FreshIsFresh
  <2>2. TypeOK'
    BY <1>1, <1>3, <2>1 DEF TypeOK
  <2>3. FreedInv'
    BY <1>1, <2>1 DEF FreedInv
  <2>4. OwnInv'
    BY <1>1, <1>3, <2>1, FreshOwned
  <2>5. SpanInv'
    BY <1>1, <1>3, <2>1 DEF TypeOK, SpanInv, AtSource
  <2> QED BY <2>2, <2>3, <2>4, <2>5
<1> QED BY <1>2, <1>3 DEF Copy

LEMMA ReallocateIInv ==
  ASSUME IInv, NEW s \in Sources, Reallocate(s)
  PROVE  IInv'
<1> USE DEF IInv, Reallocate, caster_vars
<1>1. Allocated' = Allocated /\ <<s, 0>> \in Regions /\ <<s, 1>> \in Regions
        /\ <<s, 0>> \in Sources \X {0}
  BY DEF Allocated, Regions
<1>2. <<s, 0>> \notin Allocated
  BY RegionsDistinct DEF Allocated, TypeOK
<1>3. TypeOK'
  BY <1>1 DEF TypeOK
<1>4. FreedInv'
  BY <1>1 DEF FreedInv
<1>5. OwnInv'
  BY <1>1, <1>2 DEF OwnInv
<1>6. SpanInv'
  BY DEF TypeOK, SpanInv, AtSource
<1> QED BY <1>3, <1>4, <1>5, <1>6

LEMMA NextIInv == IInv /\ [Next]_vars => IInv'
<1>1. IInv /\ UNCHANGED vars => IInv'
  BY DEF vars, caster_vars, IInv, TypeOK, FreedInv, OwnInv, SpanInv, AtSource, Allocated
<1> QED BY <1>1, LoadIInv, DestroyIInv, MoveIInv, CopyIInv, ReallocateIInv DEF Next

THEOREM Invariance == Spec => []IInv
BY InitIInv, NextIInv, PTL DEF Spec

(* Casters, spans and vectors have their types: no vector is allocated     *)
(* beyond the bound, and only what exists is used.                         *)
THEOREM TypeCorrect == Spec => []TypeOK
<1>1. IInv => TypeOK
  BY DEF IInv
<1> QED BY <1>1, Invariance, PTL

(* As long as Python leaves the argument where it is, and nobody copies a  *)
(* caster, spans refer to memory that is there.                            *)
THEOREM SpansLive == Spec => []SpanIsLive
<1>1. IInv => SpanIsLive
  <2> SUFFICES ASSUME IInv, NEW c \in usable \ copied, value_[c] \in freed
               PROVE  value_[c] = <<from[c], 0>>
    BY DEF SpanIsLive
  <2> USE DEF IInv
  <2>1. list_caster_[c] = Nowhere
    BY DEF SpanInv, OwnInv, TypeOK
  <2>2. from[c] \in Sources /\ AtSource(c, value_[c])
    BY <2>1 DEF SpanInv
  <2>3. <<from[c], 1>> \notin Allocated /\ <<from[c], 1>> \notin Sources \X {0}
    BY <2>2, RegionsDistinct DEF Allocated, TypeOK
  <2> QED BY <2>2, <2>3 DEF AtSource, FreedInv
<1> QED BY <1>1, Invariance, PTL

(* What C++ may write through is the argument's own memory.                *)
THEOREM MutableSpans == Spec => []MutableSpanIsSource
<1>1. IInv => MutableSpanIsSource
  BY DEF IInv, SpanInv, AtSource, MutableSpanIsSource
<1> QED BY <1>1, Invariance, PTL
=============================================================================
