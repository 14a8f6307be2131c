-------------------------------- MODULE K12 --------------------------------
(***************************************************************************)
(* KangarooTwelve (xof/k12): a tree hash on TurboSHAKE128.  The first      *)
(* chunk of the message goes to the stalk; the next ones are hashed each   *)
(* in a leaf, and the stalk absorbs their hashes.  With one lane a leaf    *)
(* sponge absorbs the data as it comes; with two or four, a buffer gathers *)
(* chunks that are then hashed in parallel.                                *)
(*                                                                         *)
(* A sponge is what Sponge and Xof make of it: the message it absorbed, a  *)
(* domain separation byte and whether output began.  A byte is a tagged    *)
(* token, told apart by its writer and place, and the 32-byte hash of a    *)
(* leaf is one token.  What a State's slice and pointer refer to is in     *)
(* "heap", so that two States may, in principle, share it.                 *)
(***************************************************************************)
EXTENDS Integers, Sequences

CONSTANTS
  Object,      \* the State values of a program
  chunkSize,   \* bytes of a chunk: 8192
  Lanes,       \* numbers of chunks hashed in parallel
  ContextLen,  \* lengths of the context string
  Radix,       \* digits of length_encode: 256
  MaxMessage,  \* bound: bytes written to a State
  MaxClones,   \* bound: calls of Clone
  nil

K12Assumption ==
  /\ chunkSize \in Nat \ {0} /\ Lanes \subseteq {1, 2, 4} /\ ContextLen \subseteq Nat
  /\ Radix \in Nat \ {0, 1} /\ MaxMessage \in Nat /\ MaxClones \in Nat

VARIABLES
  s,       \* the State structs; "panicked": a call panicked since the last Reset
  heap,    \* what each one's buf and leaf point at, by the State that made them
  msg,     \* history: what was written before output began, since the last Reset
  late,    \* history: how many bytes were written after output began
  clones   \* how many times Clone was called

vars == <<s, heap, msg, late, clones>>
-----------------------------------------------------------------------------
min(m, n)   == IF m < n THEN m ELSE n
Front(p, n) == SubSeq(p, 1, n)
Rest(p, n)  == SubSeq(p, n + 1, Len(p))

Marker == <<<<"marker", 0>>>>   \* 0x03 and seven zeros
Final  == <<<<"final", 0>>>>    \* 0xff 0xff
cv(p)  == <<"cv", p>>           \* the hash of a chunk, 0x0b its domain
C(n)   == [i \in 1 .. n |-> <<"C", i>>]

\* The powers of Radix.
pow[j \in Nat] == IF j = 0 THEN 1 ELSE Radix * pow[j - 1]

\* The digits of n, none for zero, and their number.
length_encode(n) ==
  LET k == CHOOSE j \in 0 .. n : n < pow[j] /\ \A i \in 0 .. j - 1 : n >= pow[i]
  IN  [i \in 1 .. k |-> <<"digit", (n \div pow[k - i]) % Radix>>] \o <<<<"digits", k>>>>

\* What a leaf absorbs: bytes that a program wrote, of the context, of a length.
Byte == (Object \X Nat) \union ({"C", "digit", "digits", "zero"} \X Int)
Leaf == [in : Seq(Byte), ds : Nat, squeezing : BOOLEAN]

NilAssumption == nil \notin Object /\ nil \notin Seq(Byte) /\ nil \notin Leaf

NewTurboShake128(D) == [in |-> <<>>, ds |-> D, squeezing |-> FALSE]
Zeros(n)            == [i \in 1 .. n |-> <<"zero", 0>>]

newDraft10(lanes, contextLen) ==
  [initialTodo |-> chunkSize, stalk |-> NewTurboShake128(7), context |-> contextLen,
   buf |-> nil, offset |-> 0, chunk |-> 0, leaf |-> nil, lanes |-> lanes,
   panicked |-> FALSE]
-----------------------------------------------------------------------------
(* The methods, as functions of a State with buf and leaf for themselves.  *)

Deref(o)   == [s[o] EXCEPT !.buf  = IF @ = nil THEN nil ELSE heap[@].buf,
                           !.leaf = IF @ = nil THEN nil ELSE heap[@].leaf]

\* sha3's Write panics once output began.
stalkWrite(v, p) == IF v.stalk.squeezing THEN [v EXCEPT !.panicked = TRUE]
                                         ELSE [v EXCEPT !.stalk.in = @ \o p]
leafWrite(v, p)  == IF v.leaf.squeezing  THEN [v EXCEPT !.panicked = TRUE]
                                         ELSE [v EXCEPT !.leaf.in = @ \o p]

\* The first data after the initial chunk: the buffer or the leaf is made.
grow(v) ==
  LET w == stalkWrite(v, Marker)
  IN  IF v.lanes = 1
        THEN [w EXCEPT !.stalk.ds = 6, !.buf = <<>>, !.leaf = NewTurboShake128(11)]
        ELSE [w EXCEPT !.stalk.ds = 6, !.buf = Zeros(v.lanes * chunkSize)]

\* One turn of the one-lane loop: write to the leaf, and hash it when it is full.
writeLeaf(x) ==
  LET to == min(chunkSize - x.v.offset, Len(x.p))
      w  == [leafWrite(x.v, Front(x.p, to)) EXCEPT !.offset = @ + to]
  IN  [v |-> IF w.offset = chunkSize
               THEN [stalkWrite(w, <<cv(w.leaf.in)>>) EXCEPT
                       !.leaf.in = <<>>, !.leaf.squeezing = FALSE,
                       !.offset = 0, !.chunk = @ + 1]
               ELSE w,
       p |-> Rest(x.p, to)]

\* The loop runs while there is data, at most once per byte.
writeLeaves(v, p) ==
  LET turn[k \in 0 .. Len(p)] ==
        IF k = 0 THEN [v |-> v, p |-> p]
        ELSE LET x == turn[k - 1] IN IF x.p = <<>> THEN x ELSE writeLeaf(x)
  IN  turn[Len(p)].v

\* The chunks of the whole groups of lanes in p.
Whole(v, p) == (Len(p) \div (v.lanes * chunkSize)) * v.lanes

writeX(v, p) ==
  IF Whole(v, p) = 0 THEN v
  ELSE [stalkWrite(v, [j \in 1 .. Whole(v, p) |->
                         cv(SubSeq(p, (j - 1) * chunkSize + 1, j * chunkSize))])
          EXCEPT !.chunk = @ + Whole(v, p)]

fill(v, p) == [v EXCEPT !.buf = [i \in DOMAIN @ |->
                                   IF i \in v.offset + 1 .. v.offset + Len(p)
                                     THEN p[i - v.offset] ELSE @[i]],
                        !.offset = @ + Len(p)]

BugFullBufferKept(v, p) ==   \* slip: the offset is not taken back
  LET to == IF v.offset # 0 \/ Len(p) < Len(v.buf) THEN min(Len(v.buf) - v.offset, Len(p))
                                                  ELSE 0
      v1 == fill(v, Front(p, to))
      p1 == Rest(p, to)
      v2 == IF v1.offset = Len(v1.buf) THEN writeX(v1, v1.buf) ELSE v1
      v3 == writeX(v2, p1)
      p2 == Rest(p1, Whole(v, p1) * chunkSize)
  IN  IF p1 # <<>> /\ v2.offset # 0 THEN [v EXCEPT !.panicked = TRUE]
      ELSE IF p2 = <<>> THEN v3
      ELSE fill([v3 EXCEPT !.offset = 0], p2)

\* Several lanes: fill the buffer, hash it when it is full, then hash whole
\* groups of chunks straight from the argument, and buffer what remains.
writeLanes(v, p) ==
  LET to == IF v.offset # 0 \/ Len(p) < Len(v.buf) THEN min(Len(v.buf) - v.offset, Len(p))
                                                  ELSE 0
      v1 == fill(v, Front(p, to))
      p1 == Rest(p, to)
      v2 == IF v1.offset = Len(v1.buf) THEN [writeX(v1, v1.buf) EXCEPT !.offset = 0] ELSE v1
      v3 == writeX(v2, p1)
      p2 == Rest(p1, Whole(v, p1) * chunkSize)
  IN  IF p1 # <<>> /\ v2.offset # 0 THEN [v EXCEPT !.panicked = TRUE]   \* "shouldn't happen"
      ELSE IF p2 = <<>> THEN v3
      ELSE fill([v3 EXCEPT !.offset = 0], p2)

write(v, p) ==
  LET taken == min(v.initialTodo, Len(p))
      v1    == IF v.initialTodo > 0
                 THEN [stalkWrite(v, Front(p, taken)) EXCEPT !.initialTodo = @ - taken]
                 ELSE v
      p1    == Rest(p, taken)
      v2    == IF v1.buf = nil THEN grow(v1) ELSE v1
  IN  IF p1 = <<>> THEN v1
      ELSE IF v2.lanes = 1 THEN writeLeaves(v2, p1) ELSE writeLanes(v2, p1)

BugFinishOneChunk(v) ==   \* slip: what the buffer holds is hashed as one chunk
  LET w == IF v.offset = 0 THEN v
           ELSE IF v.lanes = 1
             THEN [stalkWrite(v, <<cv(v.leaf.in)>>) EXCEPT !.leaf.squeezing = TRUE,
                                                           !.chunk = @ + 1]
             ELSE [stalkWrite(v, <<cv(Front(v.buf, v.offset))>>) EXCEPT !.chunk = @ + 1]
  IN  IF v.buf = nil THEN v ELSE stalkWrite(w, length_encode(w.chunk) \o Final)

\* Past the first chunk, the last chunks are hashed and counted.
finish(v) ==
  LET n == (v.offset + chunkSize - 1) \div chunkSize
      w == IF n = 0 THEN v
           ELSE IF v.lanes = 1
             THEN [stalkWrite(v, <<cv(v.leaf.in)>>) EXCEPT !.leaf.squeezing = TRUE,
                                                           !.chunk = @ + 1]
             ELSE [stalkWrite(v, [j \in 1 .. n |->
                      cv(SubSeq(v.buf, (j - 1) * chunkSize + 1, min(j * chunkSize, v.offset)))])
                     EXCEPT !.chunk = @ + n]
  IN  IF v.buf = nil THEN v ELSE stalkWrite(w, length_encode(w.chunk) \o Final)

read(v) ==
  IF v.stalk.squeezing THEN v
  ELSE LET w == write(write(v, C(v.context)), length_encode(v.context))
       IN  [finish(w) EXCEPT !.stalk.squeezing = TRUE]
-----------------------------------------------------------------------------
Init == /\ \E lanes \in Lanes, n \in ContextLen : s = [o \in Object |-> newDraft10(lanes, n)]
        /\ heap = [o \in Object |-> [buf |-> nil, leaf |-> nil]]
        /\ msg = [o \in Object |-> <<>>]
        /\ late = [o \in Object |-> 0]
        /\ clones = 0

\* A method ran on o and left it as v; a buffer or a leaf it made is o's own.
\* After a panic only Reset uses o again, so that what the method had changed by
\* then is of no account.
Return(o, v) ==
  LET grew == s[o].buf = nil /\ v.buf # nil
      w    == [v EXCEPT !.buf  = IF grew THEN o ELSE s[o].buf,
                        !.leaf = IF grew /\ v.lanes = 1 THEN o ELSE s[o].leaf]
  IN  IF v.panicked
        THEN s' = [s EXCEPT ![o].panicked = TRUE] /\ UNCHANGED heap
        ELSE /\ s' = [s EXCEPT ![o] = w]
             /\ heap' = [r \in Object |->
                           [buf  |-> IF r = w.buf  THEN v.buf  ELSE heap[r].buf,
                            leaf |-> IF r = w.leaf THEN v.leaf ELSE heap[r].leaf]]

Write(o, n) ==
  LET p == [i \in 1 .. n |-> <<o, Len(msg[o]) + late[o] + i>>]
  IN  /\ ~s[o].panicked
      /\ Len(msg[o]) + late[o] + n <= MaxMessage
      /\ Return(o, write(Deref(o), p))
      /\ IF s[o].stalk.squeezing
           THEN /\ late' = [late EXCEPT ![o] = IF s'[o].panicked THEN @ ELSE @ + n]
                /\ UNCHANGED msg
           ELSE msg' = [msg EXCEPT ![o] = @ \o p] /\ UNCHANGED late
      /\ UNCHANGED clones

\* How many bytes are read is for the stalk, which outputs one stream.
Read(o) == /\ ~s[o].panicked
           /\ Return(o, read(Deref(o)))
           /\ UNCHANGED <<msg, late, clones>>

Reset(o) == /\ s' = [s EXCEPT ![o].initialTodo = chunkSize,
                              ![o].stalk = NewTurboShake128(7),
                              ![o].buf = nil, ![o].offset = 0, ![o].chunk = 0,
                              ![o].panicked = FALSE]
            /\ msg' = [msg EXCEPT ![o] = <<>>]
            /\ late' = [late EXCEPT ![o] = 0]
            /\ UNCHANGED <<heap, clones>>

BugShallowClone(o, c) ==   \* slip: the struct is copied, not what it points at
  /\ o # c /\ clones < MaxClones /\ ~s[o].panicked
  /\ s' = [s EXCEPT ![c] = s[o]]
  /\ msg' = [msg EXCEPT ![c] = msg[o]]
  /\ late' = [late EXCEPT ![c] = late[o]]
  /\ clones' = clones + 1
  /\ UNCHANGED heap

\* The variable c is given a clone of o.
Clone(o, c) ==
  /\ o # c /\ clones < MaxClones /\ ~s[o].panicked
  /\ s' = [s EXCEPT ![c] = [s[o] EXCEPT !.buf  = IF @ = nil THEN nil ELSE c,
                                        !.leaf = IF @ = nil THEN nil ELSE c]]
  /\ heap' = [heap EXCEPT ![c] = [buf |-> Deref(o).buf, leaf |-> Deref(o).leaf]]
  /\ msg' = [msg EXCEPT ![c] = msg[o]]
  /\ late' = [late EXCEPT ![c] = late[o]]
  /\ clones' = clones + 1

Next == \/ \E o \in Object : \E n \in 0 .. MaxMessage : Write(o, n)
        \/ \E o \in Object : Read(o)
        \/ \E o \in Object : Reset(o)
        \/ \E o, c \in Object : Clone(o, c)

Spec == Init /\ [][Next]_vars
-----------------------------------------------------------------------------
\* KangarooTwelve (draft-irtf-cfrg-kangarootwelve-10, section 3), of the whole
\* message: cut into chunks, the first absorbed as it is and the others hashed.
Tree(m) ==
  LET n == (Len(m) - 1) \div chunkSize
      chunks == [j \in 1 .. n |-> cv(SubSeq(m, j * chunkSize + 1, min((j + 1) * chunkSize, Len(m))))]
  IN  IF Len(m) <= chunkSize
        THEN [in |-> m, ds |-> 7, squeezing |-> TRUE]
        ELSE [in |-> Front(m, chunkSize) \o Marker \o chunks \o length_encode(n) \o Final,
              ds |-> 6, squeezing |-> TRUE]
-----------------------------------------------------------------------------
\* The digest is the tree hash of all that was written, the context and its
\* length, however it was cut, on any number of lanes, and whatever was cloned
\* or reset before.
TreeHashed ==
  \A o \in Object :
    s[o].stalk.squeezing
      => s[o].stalk = Tree(msg[o] \o C(s[o].context) \o length_encode(s[o].context))

\* The panic "shouldn't happen" (k12.go:195) does not: until output begins, no
\* write panics. The buffer is made exactly when data came past the first chunk,
\* and the leaf with it when there is one lane; neither is ever left full.
NoPanicWhileAbsorbing ==
  \A o \in Object :
    /\ s[o].panicked => s[o].stalk.squeezing
    /\ s[o].buf = nil => s[o].offset = 0 /\ s[o].stalk.ds = 7
    /\ s[o].buf # nil =>
         /\ s[o].initialTodo = 0
         /\ IF s[o].lanes = 1
              THEN s[o].leaf # nil /\ s[o].offset < chunkSize
              ELSE /\ Len(Deref(o).buf) = s[o].lanes * chunkSize
                   /\ s[o].offset < Len(Deref(o).buf)

\* A call changes one State, Clone the one it makes: a State and its clone have
\* neither the buffer nor the leaf in common.
OthersKept == \A o, c \in Object : o # c => Deref(o)' = Deref(o) \/ Deref(c)' = Deref(c)
OthersUnchanged == [][OthersKept]_vars

\* xof.go:21 says of Write that it "panics if called after Read".
WriteAfterReadPanics == \A o \in Object : late[o] = 0
=============================================================================
