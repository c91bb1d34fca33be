------------------------------- MODULE Bytes -------------------------------
(***************************************************************************)
(* Byte strings, and the primitives of the fastssz library as the structs/ *)
(* packages use them.  A byte string is a sequence of chunks: the bytes    *)
(* lo..hi-1 of a value.  "of" names the value: <<field>>, or <<"root", t>> *)
(* for the 32 bytes of the hash tree root t.  "at" tells values of one     *)
(* name apart, and is also the number four bytes of the chunk give when    *)
(* they are read as an offset; "rev" says that the bytes are in reverse    *)
(* order.  Which bytes are where is exact; what they are is left to the    *)
(* name.                                                                   *)
(*                                                                         *)
(* A decoder returns a set of outcomes: {} when it returns an error,       *)
(* {Ok(v)} when it succeeds and {Crash} when a slice expression is out of  *)
(* range, which in Go is a run-time panic.  An encoder returns {} or a     *)
(* singleton of byte strings.                                              *)
(***************************************************************************)
EXTENDS Integers, Sequences

Named(of, at, n) == IF n = 0 THEN << >> ELSE <<[of |-> of, at |-> at, lo |-> 0, hi |-> n, rev |-> FALSE]>>
Chunk(name, at, n) == Named(<<name>>, at, n)

Zeros(n) == Chunk("zero", 0, n)

(* The fields of record r and those of q *)
Merged(r, q) == [f \in DOMAIN r \union DOMAIN q |-> IF f \in DOMAIN r THEN r[f] ELSE q[f]]

(* Where each chunk starts, and where the last one ends; by halves *)
Starts(s) ==
  LET ends[a \in DOMAIN s, b \in DOMAIN s] ==
        IF a = b THEN <<s[a].hi - s[a].lo>>
        ELSE LET m == (a + b) \div 2
                 left == ends[a, m]
                 right == ends[m + 1, b]
             IN  left \o [i \in DOMAIN right |-> left[Len(left)] + right[i]]
  IN  IF s = << >> THEN <<0>> ELSE <<0>> \o ends[1, Len(s)]

Size(s) == Starts(s)[Len(s) + 1]

(* The byte strings of ss, one after the other *)
Cat(ss) ==
  LET upTo[i \in 0..Len(ss)] == IF i = 0 THEN << >> ELSE upTo[i - 1] \o ss[i]
  IN  upTo[Len(ss)]

(* What of a chunk that starts at p and ends before q lies in a..b-1 *)
Piece(c, p, q, a, b) ==
  [c EXCEPT !.lo = IF a > p THEN @ + a - p ELSE @, !.hi = IF b < q THEN @ - (q - b) ELSE @]

Pieces(s, starts, a, b) == [i \in DOMAIN s |-> Piece(s[i], starts[i], starts[i + 1], a, b)]

(* s[a:b], for 0 <= a <= b <= Size(s). *)
Slice(s, a, b) == SelectSeq(Pieces(s, Starts(s), a, b), LAMBDA c : c.lo < c.hi)

Reversed(s) == [i \in DOMAIN s |-> [s[Len(s) + 1 - i] EXCEPT !.rev = ~@]]

Ok(v) == [panic |-> FALSE, v |-> v]
Crash == [panic |-> TRUE]
Then(outs, F(_)) == UNION {IF r.panic THEN {r} ELSE F(r.v) : r \in outs}

(* s[a:b] where the code has not bounded a and b by constants. *)
Cut(s, a, b) == IF a <= b /\ b <= Size(s) THEN {Ok(Slice(s, a, b))} ELSE {Crash}

---------------------------------------------------------------------------
(* fastssz *)

Unreadable == 2000000000   \* four bytes that are not those of one value

WriteOffset(o) == Chunk("offset", o, 4)
Offset(f) == IF Len(f) = 1 THEN f[1].at ELSE Unreadable
ReadOffset(s, pos) == Offset(Slice(s, pos, pos + 4))

(* The encoding of a list of variable-size elements: offsets, then elements. *)
Dynamic(es) == Cat([i \in DOMAIN es |-> WriteOffset(4 * Len(es) + Size(Cat(SubSeq(es, 1, i - 1))))]) \o Cat(es)
DynamicSize(es) == 4 * Len(es) + Size(Cat(es))

(* DecodeDynamicLength followed by UnmarshalDynamic. *)
UnmarshalDynamic(s, max) ==
  LET n == ReadOffset(s, 0) \div 4
      o == [i \in 1..(n + 1) |-> IF i > n THEN Size(s) ELSE ReadOffset(s, 4 * (i - 1))]
  IN  IF Size(s) = 0 THEN {<< >>}
      ELSE IF Size(s) < 4 \/ ReadOffset(s, 0) % 4 # 0 \/ n > max \/ 4 * n > Size(s) THEN {}
      ELSE IF \E i \in 1..n : o[i] > o[i + 1] \/ o[i + 1] > Size(s) THEN {}
      ELSE {[i \in 1..n |-> Slice(s, o[i], o[i + 1])]}

(* The SSZ container of the specification, from its fields in order. *)
Fix(b) == [var |-> FALSE, bytes |-> b]
Var(b) == [var |-> TRUE, bytes |-> b]
Container(fs) ==
  LET fixed == Size(Cat([i \in DOMAIN fs |-> IF fs[i].var THEN WriteOffset(0) ELSE fs[i].bytes]))
      tails == [i \in DOMAIN fs |-> IF fs[i].var THEN fs[i].bytes ELSE << >>]
  IN  Cat([i \in DOMAIN fs |-> IF fs[i].var THEN WriteOffset(fixed + Size(Cat(SubSeq(tails, 1, i - 1))))
                               ELSE fs[i].bytes]) \o Cat(tails)

(* Hash tree roots are terms: a leaf holds bytes, a node its children in     *)
(* order.  The tree over one child is that child; so is the leaf that holds  *)
(* the 32 bytes of a root.                                                   *)
RootBytes(t) == Named(<<"root", t>>, 0, 32)
Leaf(s) == IF Len(s) = 1 /\ s[1].hi - s[1].lo = 32 /\ Len(s[1].of) = 2 THEN s[1].of[2] ELSE <<"leaf", s>>
Merkleize(cs) == IF Len(cs) = 1 THEN cs[1] ELSE <<"node", cs>>
MerkleizeWithMixin(cs, n, limit) == <<"list", cs, n, limit>>
ListRoot(cs, limit) == MerkleizeWithMixin(cs, Len(cs), limit)
=============================================================================
