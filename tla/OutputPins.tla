----------------------------- MODULE OutputPins -----------------------------
(***************************************************************************)
(* How vesl-core (settle.rs) pins the outputs of a payment from one or     *)
(* more coins, and how consensus (tx-engine-1.hoon) groups the seeds of    *)
(* all spends of a transaction by lock root and checks the pins.           *)
(*                                                                         *)
(* A stranger may take our signed spends, all or some, into a transaction  *)
(* with spends of its own.  Hashes are what they are of: a pin is the group*)
(* it is a hash of, in a one-element tuple, and <<>> if there is none.     *)
(* Consensus is as it is from parent-hash-phase on.                        *)
(***************************************************************************)
EXTENDS Integers, Sequences, FiniteSetsExt, Functions

CONSTANTS OurCoins, TheirCoins,
          Worth,     \* what each coin holds, in nicks
          LockRoots,
          MaxLines,  \* bounds of the model: payout lines of a spend,
          MaxFee     \* fee

ASSUME PinsAssumption ==
  /\ OurCoins \cap TheirCoins = {} /\ Worth \in [OurCoins \cup TheirCoins -> Nat]
  /\ MaxLines \in Nat /\ MaxFee \in Nat

VARIABLES spends,  \* the spends we have built, a function on coins
          across,  \* ghost: the last pass over the pins was over all of them
          verdict  \* ghost: what consensus said of what was sent, and to whom

pinVars == <<spends, across, verdict>>

Nobody == [sender |-> "none", lands |-> FALSE, tx |-> <<>>]

PinsInit == spends = <<>> /\ across = FALSE /\ verdict = Nobody

Seed(root, gift, coin, pin) == [root |-> root, gift |-> gift, parent |-> coin, pin |-> pin]
Stripped(seed) == [seed EXCEPT !.pin = <<>>]

\* The seeds of a transaction, or of the spends that we have built.
SeedsOf(tx) == UNION { tx[c].seeds : c \in DOMAIN tx }

Gifts(seeds) == MapThenSumSet(LAMBDA s : s.gift, seeds)

\* A hash of the seeds in all that pay root: hash:seeds of the group without its pins.
GroupHash(all, root) == { Stripped(s) : s \in { t \in all : t.root = root } }

\* Wrong variant of PinGroups: a group of one is not pinned.
PinGroupsShared(seeds, all) ==
  { IF Cardinality(GroupHash(all, s.root)) > 1
    THEN [s EXCEPT !.pin = <<GroupHash(all, s.root)>>] ELSE s : s \in seeds }

\* pin_groups, for the seeds of one spend among all that the pass is given.
PinGroups(seeds, all) == { [s EXCEPT !.pin = <<GroupHash(all, s.root)>>] : s \in seeds }

-----------------------------------------------------------------------------
(* Our payment *)

Total(lines) == FoldFunction(LAMBDA line, sum : line.amount + sum, 0, lines)

\* What build_capture_seeds refuses.
LinesRefused(coin, lines, fee) ==
  \/ lines = <<>>
  \/ \E i \in DOMAIN lines : lines[i].amount = 0
  \/ \E i, j \in DOMAIN lines : i # j /\ lines[i].root = lines[j].root
  \/ Total(lines) + fee # Worth[coin]

\* Each builder pins its own spend.
BuildCaptureSeeds(coin, lines, fee) ==
  LET seeds == { Seed(lines[i].root, lines[i].amount, coin, <<>>) : i \in DOMAIN lines } IN
    /\ verdict = Nobody /\ coin \notin DOMAIN spends
    /\ ~LinesRefused(coin, lines, fee)
    /\ spends' = [c \in DOMAIN spends \cup {coin} |->
         IF c = coin THEN [seeds |-> PinGroups(seeds, seeds), fee |-> fee, signed |-> <<>>]
         ELSE spends[c]]
    /\ across' = FALSE
    /\ UNCHANGED verdict

\* Wrong variant of PinAcross: a pass for each spend.
PinEach ==
  /\ verdict = Nobody
  /\ spends' = [c \in DOMAIN spends |->
       [spends[c] EXCEPT !.seeds = PinGroups(@, @)]]
  /\ across' = TRUE
  /\ UNCHANGED verdict

\* pin_output_source_across, or ..._across_spends, which also takes signed spends.
PinAcross ==
  /\ verdict = Nobody
  /\ spends' = [c \in DOMAIN spends |->
       [spends[c] EXCEPT !.seeds = PinGroups(@, SeedsOf(spends))]]
  /\ across' = TRUE
  /\ UNCHANGED verdict

\* The digest covers the outputs, with their pins, and the fee.
SigHash(spend) == <<spend.seeds, spend.fee>>

Cosign(coin) ==
  /\ verdict = Nobody
  /\ spends' = [spends EXCEPT ![coin].signed = SigHash(spends[coin])]
  /\ UNCHANGED <<across, verdict>>

-----------------------------------------------------------------------------
(* Consensus *)

\* build-outputs: what a transaction pays to each root, by the root alone.
Outputs(tx) ==
  [ root \in { s.root : s \in SeedsOf(tx) } |->
      [seeds |-> { s \in SeedsOf(tx) : s.root = root }, source |-> GroupHash(SeedsOf(tx), root)] ]

\* validate of an output: each pin that is there names the group.
OutputValid(output) == \A s \in output.seeds : s.pin = <<>> \/ s.pin = <<output.source>>

\* A spend moves what its coin holds, and its signature and parent are right.
SpendValid(coin, spend) ==
  /\ spend.signed = SigHash(spend)
  /\ \A s \in spend.seeds : s.parent = coin
  /\ Gifts(spend.seeds) + spend.fee = Worth[coin]

Lands(tx) ==
  /\ \A c \in DOMAIN tx : SpendValid(c, tx[c])
  /\ \A root \in DOMAIN Outputs(tx) : OutputValid(Outputs(tx)[root])

Judged(sender, tx) ==
  /\ verdict = Nobody /\ DOMAIN tx # {}
  /\ verdict' = [sender |-> sender, lands |-> Lands(tx), tx |-> tx]
  /\ UNCHANGED <<spends, across>>

Send == Judged("us", spends)

\* Seeds that spend a stranger's coin.
PlainSeeds(coin) ==
  { seeds \in SUBSET { Seed(r, g, coin, <<>>) : r \in LockRoots, g \in 0..Worth[coin] } :
      /\ seeds # {} /\ Cardinality(seeds) <= MaxLines
      /\ Gifts(seeds) = Worth[coin] }

\* They have no pin, or the one that consensus will find: with any other the
\* transaction is refused.
Given(seeds, ours, pinned) ==
  { IF pinned THEN [s EXCEPT !.pin = <<GroupHash(SeedsOf(ours) \cup seeds, s.root)>>] ELSE s
      : s \in seeds }

AddedSpends(coin, ours) ==
  { [seeds |-> Given(seeds, ours, pinned), fee |-> 0, signed |-> <<Given(seeds, ours, pinned), 0>>]
      : seeds \in PlainSeeds(coin), pinned \in BOOLEAN }

Wrap ==
  \E kept \in SUBSET DOMAIN spends, coin \in TheirCoins :
    LET ours == Restrict(spends, kept) IN
      \/ Judged("stranger", ours)
      \/ \E added \in AddedSpends(coin, ours) :
           Judged("stranger", [c \in kept \cup {coin} |-> IF c = coin THEN added ELSE spends[c]])

PinsNext ==
  \/ \E coin \in OurCoins, n \in 0..MaxLines, fee \in 0..MaxFee :
       \E lines \in [1..n -> [root : LockRoots, amount : 0..Worth[coin]]] :
         BuildCaptureSeeds(coin, lines, fee)
  \/ \E coin \in DOMAIN spends : Cosign(coin)
  \/ PinAcross
  \/ Send \/ Wrap

PinsSpec == PinsInit /\ [][PinsNext]_pinVars

-----------------------------------------------------------------------------
(* Properties *)

PinsTypeOK ==
  /\ DOMAIN spends \subseteq OurCoins /\ across \in BOOLEAN
  /\ verdict.sender \in {"none", "us", "stranger"} /\ verdict.lands \in BOOLEAN

\* No two of our spends pay one root.
RootsApart ==
  \A s, t \in SeedsOf(spends) : s.root = t.root => s.parent = t.parent

\* What we send as we built it lands, if each spend is signed as it stands and the
\* pins were given over all spends, or no two of them pay one root: consensus finds
\* the groups that the builder hashed.
PaymentLands ==
  verdict.sender = "us" =>
    LET signed == \A c \in DOMAIN spends : spends[c].signed = SigHash(spends[c]) IN
      signed /\ (across \/ RootsApart) => verdict.lands

\* Whatever transaction a stranger puts our signed spends into: if it lands, nobody else
\* paid to a root of ours in it, so that no output has money or data that we did not
\* sign for; and if the pins are over all our spends, each root it pays gets all
\* that they pay there.
OutputsAsSigned ==
  verdict.lands =>
    \A root \in LockRoots :
      LET paid == { s \in SeedsOf(verdict.tx) : s.root = root }
          ours == { s \in SeedsOf(spends) : s.root = root }
      IN  paid \cap ours # {} =>
            /\ \A s \in paid : s.parent \in OurCoins
            /\ across => paid = ours

=============================================================================
