------------------------------- MODULE Prio3 -------------------------------
(***************************************************************************)
(* Prio3 (vdaf/prio3): clients share their measurements among aggregators, *)
(* which verify a report together, message by message, add up what passed, *)
(* and hand their sums to a collector.                                     *)
(*                                                                         *)
(* The library leaves the transport to the application.  Here reports may  *)
(* be stored under another report's nonce or with another's public share,  *)
(* an aggregator may be misnumbered, prep shares may be combined in any    *)
(* order and number, and prep messages may reach the state of any report.  *)
(*                                                                         *)
(* What an extendable-output function gives is unknown to whoever has not  *)
(* its seed, and it never repeats: vectors are formal sums of such         *)
(* unknowns, and of the measurements.  Truncate is linear, so that a       *)
(* truncated share is written as the share it comes from.                  *)
(***************************************************************************)
EXTENDS Integers, Sequences, FiniteSets, SequencesExt

CONSTANTS
  Report,       \* reports, and the nonces they were sharded with
  shares,       \* number of aggregators
  MaxMixups,    \* bound: prep states begun from the wrong input
  nil

ASSUME SharesAssumption == shares \in Nat /\ shares >= 2
ASSUME BoundAssumption  == MaxMixups \in Nat

Aggregator == 0 .. shares - 1   \* 0 is the leader, the others are helpers
Helper     == 1 .. shares - 1
AggID      == 0 .. shares       \* the numbers that PrepInit does not refuse

VARIABLES
  jointRand,  \* whether the circuit has joint randomness
  report,     \* what Shard returned: the public share and the leader's shares
  prep,       \* by aggregator and nonce: what PrepInit was given and returned
  out,        \* by aggregator and nonce: the output share, and the nonces of
              \* the prep shares whose message it was released on
  agg,        \* the aggregate share of each aggregator
  batch       \* history: the nonces it is the sum of

vars == <<jointRand, report, prep, out, agg, batch>>
-----------------------------------------------------------------------------
(* Vectors *)

\* The measurement of a report, the proof its client made, and what the seed of a
\* helper expands to under an aggregator's number.
Term == {<<u, r>> : u \in {"meas", "proof"}, r \in Report}
        \union {<<"expand", r, k, j>> : r \in Report, k \in Helper, j \in AggID \ {0}}

Zero        == [t \in Term |-> 0]
Unit(t)     == [Zero EXCEPT ![t] = 1]
Plus(v, w)  == [t \in Term |-> v[t] + w[t]]
Minus(v, w) == [t \in Term |-> v[t] - w[t]]
Vector      == [Term -> Int]

Sum(vs) == LET s[n \in 0 .. Len(vs)] == IF n = 0 THEN Zero ELSE Plus(s[n - 1], vs[n])
           IN  s[Len(vs)]
-----------------------------------------------------------------------------
(* The extendable-output functions and the proof system *)

\* helperMeasShare and helperProofsShare: helper k's seed, under the number j.
expand(r, k, j) == Unit(<<"expand", r, k, j>>)

\* From the blind of share k of report r, the aggregator's number, a nonce and the
\* measurement share.
jointRandPart(r, k, j, nonce, measShare) == <<r, k, j, nonce, measShare>>

Part == Report \X Aggregator \X AggID \X Report \X Vector

\* A seed is told from every other by the parts it was made from, in order.
jointRandSeed(parts) == parts

\* Linear in both shares; evaluated at a point that only this nonce has.
Query(nonce, measShare, proofShare, seed) ==
  [nonce |-> nonce, jointRand |-> seed, meas |-> measShare, proof |-> proofShare]

\* The sum of the verifiers: at one point and with one joint randomness, a measurement
\* with its proof.  The sum of none is zero, which also satisfies the checks.
Decide(verifiers) ==
  \/ verifiers = <<>>
  \/ LET v == verifiers[1]
     IN  /\ \A i \in DOMAIN verifiers : /\ verifiers[i].nonce = v.nonce
                                        /\ verifiers[i].jointRand = v.jointRand
         /\ \E r \in Report :
              /\ report[r] # nil
              /\ Sum([i \in DOMAIN verifiers |-> verifiers[i].meas]) = Unit(<<"meas", r>>)
              /\ Sum([i \in DOMAIN verifiers |-> verifiers[i].proof]) = Unit(<<"proof", r>>)
              /\ jointRand => v.jointRand = jointRandSeed(report[r].public)
-----------------------------------------------------------------------------
(* The methods *)

BugShardReport(r) ==   \* slip: the leader's part is made too early
  LET all   == Sum([i \in Helper |-> expand(r, i, i)])
      meas  == Minus(Unit(<<"meas", r>>), all)
      parts == [i \in 1 .. shares |->
                  IF i = 1 THEN jointRandPart(r, 0, 0, r, Unit(<<"meas", r>>))
                           ELSE jointRandPart(r, i - 1, i - 1, r, expand(r, i - 1, i - 1))]
  IN  [public |-> IF jointRand THEN parts ELSE <<>>,
       measShare |-> meas, proofShare |-> Minus(Unit(<<"proof", r>>), all)]

\* The leader's shares are what the helpers' leave; the leader's part of the joint
\* randomness is made from its share, once that is final.
ShardReport(r) ==
  LET all   == Sum([i \in Helper |-> expand(r, i, i)])
      meas  == Minus(Unit(<<"meas", r>>), all)
      parts == [i \in 1 .. shares |->
                  IF i = 1 THEN jointRandPart(r, 0, 0, r, meas)
                           ELSE jointRandPart(r, i - 1, i - 1, r, expand(r, i - 1, i - 1))]
  IN  [public |-> IF jointRand THEN parts ELSE <<>>,
       measShare |-> meas, proofShare |-> Minus(Unit(<<"proof", r>>), all)]

\* Share k of report x, as the aggregator numbered j reads it: nil, an error, if one
\* is the leader's and the other is not.
getInputShareContent(j, x, k) ==
  IF (j = 0) # (k = 0) THEN nil
  ELSE IF j = 0 THEN [meas |-> report[x].measShare, proof |-> report[x].proofShare]
  ELSE [meas |-> expand(x, k, j), proof |-> expand(x, k, j)]

\* What the aggregator j keeps, and the prep share it sends, for a nonce, the public
\* share of report p and share k of report x.
PrepInitOf(j, nonce, p, x, k) ==
  LET share == getInputShareContent(j, x, k)
      seed  == IF jointRand THEN jointRandSeed(report[p].public) ELSE nil
  IN  [given |-> [public |-> p, report |-> x, share |-> k],
       outShare |-> share.meas, corrected |-> seed,
       part |-> IF jointRand THEN jointRandPart(x, k, j, nonce, share.meas) ELSE nil,
       verifiersShare |-> Query(nonce, share.meas, share.proof, seed)]

\* A message, or nil for an error.  Neither the number of prep shares nor their
\* order is looked at.
PrepSharesToPrep(prepShares) ==
  IF ~Decide([i \in DOMAIN prepShares |-> prepShares[i].verifiersShare]) THEN nil
  ELSE [nonces |-> {prepShares[i].verifiersShare.nonce : i \in DOMAIN prepShares},
        joinRand |-> IF jointRand
                       THEN jointRandSeed([i \in DOMAIN prepShares |-> prepShares[i].part])
                       ELSE nil]

Message == [nonces : SUBSET Report, joinRand : Seq(Part) \union {nil}]

ASSUME NilAssumption == nil \notin Seq(Part) /\ nil \notin Message

BugReleases(state, msg) == TRUE   \* slip: the seeds are not compared

\* PrepNext returns the output share.
Releases(state, msg) ==
  msg.joinRand # nil /\ state.corrected # nil => msg.joinRand = state.corrected

Aggregate(aggShare, outShare) == Plus(aggShare, outShare)

BugUnshard(aggShares) ==   \* slip: the sum begins with the first share
  IF Len(aggShares) # shares THEN nil ELSE FoldLeft(Plus, aggShares[1], aggShares)

\* The formal sum of the aggregate shares, nil if there are too many or too few.
Unshard(aggShares) == IF Len(aggShares) # shares THEN nil ELSE Sum(aggShares)
-----------------------------------------------------------------------------
None == [r \in Report |-> nil]

Init == /\ jointRand \in BOOLEAN
        /\ report = None
        /\ prep = [j \in AggID |-> None]
        /\ out = [j \in Aggregator |-> None]
        /\ agg = [j \in Aggregator |-> Zero]
        /\ batch = [j \in Aggregator |-> {}]

Shard(r) == /\ report[r] = nil
            /\ report' = [report EXCEPT ![r] = ShardReport(r)]
            /\ UNCHANGED <<jointRand, prep, out, agg, batch>>

Right(j, r) == [public |-> r, report |-> r, share |-> j]

Mixups == {i \in AggID \X Report : /\ prep[i[1]][i[2]] # nil
                                   /\ prep[i[1]][i[2]].given # Right(i[1], i[2])}

\* An aggregator keeps what a report came with, and begins with it once.
PrepInit(j, nonce, p, x, k) ==
  /\ prep[j][nonce] = nil
  /\ report[nonce] # nil /\ report[p] # nil /\ report[x] # nil
  /\ getInputShareContent(j, x, k) # nil
  /\ prep' = [prep EXCEPT ![j][nonce] = PrepInitOf(j, nonce, p, x, k)]
  /\ Cardinality(Mixups') <= MaxMixups
  /\ UNCHANGED <<jointRand, report, out, agg, batch>>

Prepared == {i \in AggID \X Report : prep[i[1]][i[2]] # nil}

\* What some prep shares, in some order, combine into.  None is ever replaced, so a
\* message that was combined earlier is among them too.
Messages ==
  {PrepSharesToPrep([i \in DOMAIN senders |-> prep[senders[i][1]][senders[i][2]]]) :
     senders \in SeqOf(Prepared, shares)} \ {nil}

\* After an error the state is there for another message.
PrepNext(j, nonce, msg) ==
  /\ prep[j][nonce] # nil /\ out[j][nonce] = nil
  /\ Releases(prep[j][nonce], msg)
  /\ out' = [out EXCEPT ![j][nonce] = [share |-> prep[j][nonce].outShare, on |-> msg.nonces]]
  /\ UNCHANGED <<jointRand, report, prep, agg, batch>>

\* An aggregator adds an output share once.
AggregateUpdate(j, nonce) ==
  /\ out[j][nonce] # nil /\ nonce \notin batch[j]
  /\ agg' = [agg EXCEPT ![j] = Aggregate(@, out[j][nonce].share)]
  /\ batch' = [batch EXCEPT ![j] = @ \union {nonce}]
  /\ UNCHANGED <<jointRand, report, prep, out>>

Next == \/ \E r \in Report : Shard(r)
        \/ \E j \in AggID, nonce, p, x \in Report, k \in Aggregator : PrepInit(j, nonce, p, x, k)
        \/ \E msg \in Messages, j \in Aggregator, nonce \in Report : PrepNext(j, nonce, msg)
        \/ \E j \in Aggregator, nonce \in Report : AggregateUpdate(j, nonce)

Spec == Init /\ [][Next]_vars
-----------------------------------------------------------------------------
\* Every aggregator began, under this nonce, with its own share of report x.
Shared(nonce, x) ==
  \A i \in Aggregator : /\ prep[i][nonce] # nil
                        /\ prep[i][nonce].given.report = x /\ prep[i][nonce].given.share = i

\* The message was made for that nonce or, with joint randomness, the public share is
\* the nonce's.
MadeFor(j, nonce) == \/ out[j][nonce].on = {nonce}
                     \/ jointRand /\ prep[j][nonce].given.public = nonce

\* All began with shares of one report. With joint randomness it is the one sharded
\* with that nonce, and so is the public share.
AllVerified(j, nonce) ==
  IF jointRand THEN Shared(nonce, nonce) /\ prep[j][nonce].given.public = nonce
               ELSE \E x \in Report : Shared(nonce, x)

\* No aggregator releases an output share unless all of them verified shares of one
\* report under that nonce.
VerifiedTogether ==
  \A j \in Aggregator, nonce \in Report :
    out[j][nonce] # nil /\ MadeFor(j, nonce) => AllVerified(j, nonce)

\* A report that came right is verified: the prep shares, in the aggregators' order,
\* combine into a message on which each of them releases its output share.
RightReportPasses ==
  \A r \in Report :
    (\A j \in Aggregator : prep[j][r] # nil /\ prep[j][r].given = Right(j, r))
      => LET msg == PrepSharesToPrep([i \in 1 .. shares |-> prep[i - 1][r]])
         IN  msg # nil /\ \A j \in Aggregator : Releases(prep[j][r], msg)

\* Where the aggregators added up the same nonces, each on the message for it, the
\* collector gets the sum of the measurements, and nothing of the shares is left in it.
CollectedIsSum ==
  LET B == batch[0]
      total == Sum([i \in 1 .. Cardinality(B) |->
                      LET r == SetToSeq(B)[i]
                          x == CHOOSE x \in Report : Shared(r, x)
                      IN  Unit(<<"meas", x>>)])
  IN  (\A j \in Aggregator : batch[j] = B /\ \A r \in B : out[j][r].on = {r})
        => Unshard([i \in 1 .. shares |-> agg[i - 1]]) = total
=============================================================================
