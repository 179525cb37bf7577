----------------------------- MODULE SpanCaster -----------------------------
(***************************************************************************)
(* type_caster<absl::Span<T>> of absl_casters.h: what a Python argument is *)
(* turned into when C++ wants a span.  A span owns nothing: it refers to   *)
(* the argument's own memory (a buffer, an opaque std::vector) or, when    *)
(* the argument had to be converted, to a vector inside the caster.  The   *)
(* casters can be moved and copied and die one by one; C++ reads, and      *)
(* perhaps writes, through the span that a living caster hands out.        *)
(*                                                                         *)
(* T is chosen once.  The buffer export ends with load(), so that Python   *)
(* may reallocate an argument under a span that refers to it.              *)
(***************************************************************************)
EXTENDS Naturals

CONSTANTS Casters,
          MaxVectors   \* bound: vectors that casters allocate

ASSUME MaxVectorsAssumption == MaxVectors \in Nat

(* One argument of each kind: 1-D buffers of the right element type, one   *)
(* with strides, an opaque vector, a list, and a list with an element that *)
(* does not convert.                                                       *)
Sources == {"array", "readonly_array", "strided_array", "vector", "list", "bad_list"}
NoSource == "none"

Elems == {"number", "bool", "PyObject*", "class", "class*"}
Types == [const : BOOLEAN, elem : Elems]

(* Memory: that of a source, before and after a reallocation, and that of  *)
(* each vector a caster has allocated.                                     *)
Regions == (Sources \X {0, 1}) \cup ({"own"} \X (1..MaxVectors))
Nowhere == <<>>

VARIABLES
  type,          \* T
  alive,         \* the casters that exist
  usable,        \* those that C++ may take a span from: loaded, and not
                 \*   moved from
  from,          \* the argument each was loaded from
  convert,       \* load()'s second argument
  list_caster_,  \* where the vector of list_caster_ is, Nowhere if none
  value_,        \* where the span points
  copied,        \* the casters made or assigned by copying, or from such
  memory,        \* where the data of each source is
  vectors,       \* how many vectors have been allocated
  freed          \* memory that is gone

caster_vars == <<alive, usable, from, convert, list_caster_, value_, copied>>
vars == <<type, caster_vars, memory, vectors, freed>>

TypeOK ==
  /\ type \in Types
  /\ alive \subseteq Casters /\ usable \subseteq alive /\ copied \subseteq alive
  /\ from \in [Casters -> Sources \cup {NoSource}]
  /\ convert \in [Casters -> BOOLEAN]
  /\ list_caster_ \in [Casters -> Regions \cup {Nowhere}]
  /\ value_ \in [Casters -> Regions \cup {Nowhere}]
  /\ memory \in [Sources -> Regions]
  /\ vectors \in 0..MaxVectors
  /\ freed \subseteq Regions

Init ==
  /\ type \in Types
  /\ alive = {} /\ usable = {} /\ copied = {}
  /\ from = [c \in Casters |-> NoSource]
  /\ convert = [c \in Casters |-> FALSE]
  /\ list_caster_ = [c \in Casters |-> Nowhere]
  /\ value_ = [c \in Casters |-> Nowhere]
  /\ memory = [s \in Sources |-> <<s, 0>>]
  /\ vectors = 0
  /\ freed = {}
-----------------------------------------------------------------------------
\* Mutant: PyBUF_WRITABLE is not asked for.
BufferFitsReadOnly(s) ==
  /\ type.elem \in {"number", "bool", "PyObject*"}
  /\ s \in {"array", "readonly_array"}

(* LoadSpanFromBuffer: is_buffer_interface_compatible_type, one dimension, *)
(* no stride, the same item type, and writable unless T is const.          *)
BufferFits(s) ==
  /\ type.elem \in {"number", "bool", "PyObject*"}
  /\ s = "array" \/ (s = "readonly_array" /\ type.const)

(* LoadSpanOpaqueVector; there is no span of a std::vector<bool>.          *)
VectorFits(s) == s = "vector" /\ type.elem # "bool"

\* Mutant: T need not be const.
MayConvertAny(s, may) ==
  /\ may
  /\ type.elem \notin {"bool", "PyObject*"}
  /\ s # "bad_list"

(* A converted element must outlive its own caster: pointers are taken     *)
(* only to objects that Python holds.                                      *)
MayConvert(s, may) ==
  /\ may
  /\ type.const
  /\ type.elem \notin {"bool", "PyObject*"}
  /\ s # "bad_list"

FreshVector == <<"own", vectors + 1>>

(* A fresh caster, and load() on it.  One that cannot load is discarded.   *)
Load(c, s, may) ==
  /\ c \notin alive
  /\ alive' = alive \cup {c} /\ usable' = usable \cup {c}
  /\ from' = [from EXCEPT ![c] = s]
  /\ convert' = [convert EXCEPT ![c] = may]
  /\ \/ /\ BufferFits(s) \/ VectorFits(s)
        /\ value_' = [value_ EXCEPT ![c] = memory[s]]
        /\ UNCHANGED <<list_caster_, vectors>>
     \/ /\ ~BufferFits(s) /\ ~VectorFits(s) /\ MayConvert(s, may)
        /\ vectors < MaxVectors
        /\ vectors' = vectors + 1
        /\ list_caster_' = [list_caster_ EXCEPT ![c] = FreshVector]
        /\ value_' = [value_ EXCEPT ![c] = FreshVector]
  /\ UNCHANGED <<type, copied, memory, freed>>

Owned(c) == {list_caster_[c]} \ {Nowhere}

\* Mutant: the span of a caster that dies is kept.
DestroyKeepingSpan(c) ==
  /\ c \in alive
  /\ alive' = alive \ {c} /\ copied' = copied \ {c}
  /\ freed' = freed \cup Owned(c)
  /\ list_caster_' = [list_caster_ EXCEPT ![c] = Nowhere]
  /\ UNCHANGED <<type, usable, from, convert, value_, memory, vectors>>

(* The caster goes, and its vector with it.                                *)
Destroy(c) ==
  /\ c \in alive
  /\ alive' = alive \ {c} /\ usable' = usable \ {c} /\ copied' = copied \ {c}
  /\ freed' = freed \cup Owned(c)
  /\ from' = [from EXCEPT ![c] = NoSource]
  /\ convert' = [convert EXCEPT ![c] = FALSE]
  /\ list_caster_' = [list_caster_ EXCEPT ![c] = Nowhere]
  /\ value_' = [value_ EXCEPT ![c] = Nowhere]
  /\ UNCHANGED <<type, memory, vectors>>

(* What a caster is besides its members.                                   *)
SameLoad(c, d) ==
  /\ alive' = alive \cup {d}
  /\ from' = [from EXCEPT ![d] = from[c]]
  /\ convert' = [convert EXCEPT ![d] = convert[c]]
  /\ freed' = freed \cup Owned(d)
  /\ UNCHANGED <<type, memory>>

\* Mutant: no implicit move, and the copy in its place.
MoveAsCopy(c, d) ==
  /\ c \in usable /\ d # c
  /\ vectors < MaxVectors
  /\ SameLoad(c, d)
  /\ usable' = (usable \ {c}) \cup {d}
  /\ copied' = IF c \in copied THEN copied \cup {d} ELSE copied \ {d}
  /\ vectors' = IF Owned(c) = {} THEN vectors ELSE vectors + 1
  /\ list_caster_' =
       [list_caster_ EXCEPT ![d] = IF Owned(c) = {} THEN Nowhere ELSE FreshVector]
  /\ value_' = [value_ EXCEPT ![d] = value_[c]]

(* Move construction and assignment are the implicit ones, not the two     *)
(* templates of the class (a template is never a move constructor): the    *)
(* vector's memory goes over, and the span with it.  The caster moved from *)
(* keeps an empty vector, and its span.                                    *)
Move(c, d) ==
  /\ c \in usable /\ d # c
  /\ SameLoad(c, d)
  /\ usable' = (usable \ {c}) \cup {d}
  /\ copied' = IF c \in copied THEN copied \cup {d} ELSE copied \ {d}
  /\ list_caster_' = [list_caster_ EXCEPT ![d] = list_caster_[c], ![c] = Nowhere]
  /\ value_' = [value_ EXCEPT ![d] = value_[c]]
  /\ UNCHANGED vectors

(* Copying is implicit, too: the vector is copied, the span is the span.   *)
(* (An assigned-to vector that has room keeps its memory: not told apart.) *)
Copy(c, d) ==
  /\ c \in usable /\ d # c
  /\ SameLoad(c, d)
  /\ usable' = usable \cup {d}
  /\ value_' = [value_ EXCEPT ![d] = value_[c]]
  /\ \/ /\ list_caster_[c] = Nowhere
        /\ copied' = IF c \in copied THEN copied \cup {d} ELSE copied \ {d}
        /\ list_caster_' = [list_caster_ EXCEPT ![d] = Nowhere]
        /\ UNCHANGED vectors
     \/ /\ list_caster_[c] # Nowhere
        /\ vectors < MaxVectors
        /\ vectors' = vectors + 1
        /\ list_caster_' = [list_caster_ EXCEPT ![d] = FreshVector]
        /\ copied' = copied \cup {d}

(* Python makes an array or an opaque vector grow (once each: a bound).    *)
Reallocate(s) ==
  /\ s \in {"array", "vector"}
  /\ memory[s] = <<s, 0>>
  /\ memory' = [memory EXCEPT ![s] = <<s, 1>>]
  /\ freed' = freed \cup {<<s, 0>>}
  /\ UNCHANGED <<type, caster_vars, vectors>>

Next ==
  \/ \E c \in Casters :
       \/ \E s \in Sources, may \in BOOLEAN : Load(c, s, may)
       \/ \E d \in Casters : Move(c, d) \/ Copy(c, d)
       \/ Destroy(c)
  \/ \E s \in Sources : Reallocate(s)

Spec == Init /\ [][Next]_vars
-----------------------------------------------------------------------------
(* A caster that was loaded, and moved about ever so often while others    *)
(* died, hands out a span of memory that exists -- unless Python has       *)
(* reallocated the argument, or a copy was made on the way.                *)
SpanIsLive ==
  \A c \in usable \ copied :
    value_[c] \in freed => value_[c] = <<from[c], 0>>

(* A span that C++ may write through, or that was loaded without           *)
(* permission to convert, is the argument's own memory, and writable: what *)
(* C++ writes is what Python then reads.                                   *)
MutableSpanIsSource ==
  \A c \in usable :
    /\ ~type.const \/ ~convert[c] => value_[c] \in {<<from[c], 0>>, <<from[c], 1>>}
    /\ ~type.const => from[c] # "readonly_array"

(* What the comment on the class's copy and move operations demands: "Copy *)
(* and Move operations must ensure the span points to the copied or moved  *)
(* vector (if any), not the original one."                                 *)
CopyPointsAtCopy ==
  \A c \in usable : list_caster_[c] # Nowhere => value_[c] = list_caster_[c]
=============================================================================
