---------------------------- MODULE SpendProofs ----------------------------
(***************************************************************************)
(* Theorems about what vesl-core builds to lock and to spend coins.        *)
(*                                                                         *)
(* EscrowLocks, for every assignment of keys, every deadline and every field *)
(* prime.  The argument has two halves.  Of the constructors: what is not  *)
(* refused has windows that meet (HandOver) and branches no signature of which *)
(* can act for another (Separate), for want of two parties with one key.  Of *)
(* the note's life: a key signs only what names it (LifeInv).              *)
(*                                                                         *)
(* OutputPins, for every coin, worth and payout: a pin names the group it was *)
(* made in (OurSeeds), and what we build is balanced (Balanced).           *)
(*                                                                         *)
(* BranchSpends, for all seeds that may be wanted and every bound: the fee.  *)
(* What the data of one root come to when they are merged is, without a      *)
(* collision of keys, the same in every order (MergedAlike), and never more  *)
(* than they come to apart (MergedIsLess): the sum over all seeds is one over *)
(* roots of sums over the seeds of each (SumOfFibers), and a key of a merged *)
(* group is a key of one of its seeds.  A smaller transaction and a later    *)
(* page make the fee no larger (FeeGrows), so FeeInv stands.                 *)
(*                                                                         *)
(* BranchSpends again, for any locks and preimages: the witness.  By         *)
(* induction on the levels of a lock, the proofs the chain finds by walking  *)
(* the tree of hashes are those the SDK computes by a formula (NodesProve,   *)
(* ChainProves).  Rule by rule, what the builder lets pass holds and what it *)
(* refuses fails (HaxHolds, HaxFails, PkhHolds, PkhFails, RulesHold).  The   *)
(* invariant is that the attempt is what a builder made of the note that is  *)
(* held, at this page or before (WitnessInv).                                *)
(***************************************************************************)
EXTENDS EscrowLocks, OutputPins, BranchSpends, Inductions

-----------------------------------------------------------------------------
(* Orders and branches *)

\* Each kind of order has the lock of its constructor.
LEMMA LockOfKind ==
  ASSUME NEW o
  PROVE  /\ o.kind = "funding" => Lock(o) = FundingLock(o)
         /\ o.kind = "job" => Lock(o) = JobLock(o)
         /\ o.kind = "provider" => Lock(o) = ProviderLock(o)
         /\ o.kind = "ticket" => Lock(o) = TicketLock(o)
         /\ o.kind = "vouch" => Lock(o) = VouchLock(o)
         /\ o.kind = "demand" => Lock(o) = DemandLock(o)
         /\ o.kind = "slice" => Lock(o) = SliceLock(o)
         /\ o.kind = "held" => Lock(o) = HeldLock(o)
         /\ o.kind = "reward" => Lock(o) = RewardLock(o)
BY DEF Lock

\* What an order consists of.
LEMMA OrderType ==
  ASSUME NEW o \in Orders
  PROVE  /\ o.kind \in Kinds /\ o.d \in Nat /\ o.e \in Nat
         /\ o.key \in [RolesOf[o.kind] -> Keys]
<1> DEFINE Second(kind) == IF kind \in {"ticket", "vouch"} THEN Params ELSE {0}
<1>1. PICK kind \in Kinds :
        o \in [kind : {kind}, key : [RolesOf[kind] -> Keys], d : Params, e : Second(kind)]
  BY DEF Orders
<1>2. Second(kind) \subseteq Nat
  BY LocksAssumption
<1> HIDE DEF Second
<1>3. o.kind = kind /\ o.key \in [RolesOf[kind] -> Keys] /\ o.d \in Params /\ o.e \in Second(kind)
  BY <1>1
<1>4. QED  BY <1>2, <1>3, LocksAssumption

\* The kinds of lock, by name.
LEMMA KindNames ==
  Kinds = {"funding", "job", "provider", "ticket", "vouch", "demand", "slice",
           "held", "reward"}
BY DEF Kinds, RolesOf

\* A bound that is not zero is kept, so a window is what its constructor says.
LEMMA SoleWindows ==
  ASSUME NEW k, NEW d \in Nat \ {0}, NEW s \in Nat, NEW n \in Nat
  PROVE  /\ WindowOpen(Sole(k), s, n)
         /\ WindowOpen(From(Sole(k), d), s, n) <=> n >= s + d
         /\ WindowOpen(Through(Sole(k), d), s, n) <=> n <= s + d
BY DEF Sole, Branch, From, Through, WindowOpen

\* The same for absolute heights.
LEMMA SoleHeights ==
  ASSUME NEW k, NEW d \in Nat \ {0}, NEW s \in Nat, NEW n \in Nat
  PROVE  /\ WindowOpen(FromHeight(Sole(k), d), s, n) <=> n >= d
         /\ WindowOpen(ThroughHeight(Sole(k), d), s, n) <=> n <= d
BY DEF Sole, Branch, FromHeight, ThroughHeight, WindowOpen

\* The same for a branch of two keys.
LEMMA BothWindows ==
  ASSUME NEW j, NEW k, NEW d \in Nat \ {0}, NEW s \in Nat, NEW n \in Nat
  PROVE  /\ WindowOpen(Both(j, k), s, n)
         /\ WindowOpen(From(Both(j, k), d), s, n) <=> n >= s + d
         /\ WindowOpen(Through(Both(j, k), d), s, n) <=> n <= s + d
BY DEF Both, Branch, From, Through, WindowOpen

\* The same for a branch of two keys and absolute heights.
LEMMA BothHeights ==
  ASSUME NEW j, NEW k, NEW d \in Nat \ {0}, NEW s \in Nat, NEW n \in Nat
  PROVE  /\ WindowOpen(FromHeight(Both(j, k), d), s, n) <=> n >= d
         /\ WindowOpen(ThroughHeight(Both(j, k), d), s, n) <=> n <= d
BY DEF Both, Branch, FromHeight, ThroughHeight, WindowOpen

\* A branch without a window has no bound.
LEMMA PlainBounds ==
  ASSUME NEW j, NEW k
  PROVE  Bounds(Sole(k)) = {0} /\ Bounds(Both(j, k)) = {0}
BY DEF Bounds, Sole, Both, Branch

\* Each window of a one-key branch adds the one bound it is given.
LEMMA SoleBounds ==
  ASSUME NEW k, NEW d
  PROVE  /\ Bounds(From(Sole(k), d)) = {0, d}
         /\ Bounds(Through(Sole(k), d)) = {0, d}
         /\ Bounds(FromHeight(Sole(k), d)) = {0, d}
         /\ Bounds(ThroughHeight(Sole(k), d)) = {0, d}
BY DEF Bounds, Sole, Branch, From, Through, FromHeight, ThroughHeight

\* Each window of a two-key branch adds the one bound it is given.
LEMMA BothBounds ==
  ASSUME NEW j, NEW k, NEW d
  PROVE  /\ Bounds(From(Both(j, k), d)) = {0, d}
         /\ Bounds(Through(Both(j, k), d)) = {0, d}
         /\ Bounds(FromHeight(Both(j, k), d)) = {0, d}
         /\ Bounds(ThroughHeight(Both(j, k), d)) = {0, d}
BY DEF Bounds, Both, Branch, From, Through, FromHeight, ThroughHeight

\* Two keys are two only if they differ: the set drops the second otherwise.
LEMMA TwoKeys ==
  ASSUME NEW j, NEW k
  PROVE  /\ IsFiniteSet({k}) /\ Cardinality({k}) = 1
         /\ IsFiniteSet({j, k}) /\ (j # k => Cardinality({j, k}) = 2)
<1>1. IsFiniteSet({k}) /\ Cardinality({k}) = 1
  BY FS_Singleton
<1>2. {j, k} = {k} \cup {j}
  OBVIOUS
<1>3. QED  BY <1>1, <1>2, FS_AddElement

\* An order that is not refused gives every role a key of its own.
LEMMA DistinctKeys ==
  ASSUME NEW o \in Orders, ~Refused(o)
  PROVE  \A r, s \in RolesOf[o.kind] : r # s => o.key[r] # o.key[s]
BY DEF Refused, KeysCollide

-----------------------------------------------------------------------------
(* The constructors *)

\* The second branch opens at the block after the first one's last.
LEMMA HandOver ==
  ASSUME NEW o \in Orders, ~Refused(o), o.kind \in DOMAIN Handover,
         NEW s \in Nat, NEW n \in Nat
  PROVE  WindowOpen(Lock(o)[Handover[o.kind][1]], s, n)
           <=> ~WindowOpen(Lock(o)[Handover[o.kind][2]], s, n)
<1> DEFINE first == Lock(o)[Handover[o.kind][1]]
           second == Lock(o)[Handover[o.kind][2]]
<1>0. /\ o.d \in Nat /\ o.e \in Nat /\ Prime \in Nat
      /\ o.kind \in {"job", "provider", "ticket", "vouch", "demand"}
  BY OrderType, LocksAssumption DEF Handover
<1>1. CASE o.kind = "job"
  <2>1. /\ first = Through(Both(o.key["platform"], o.key["provider"]), o.d)
        /\ second = From(Sole(o.key["buyer"]), o.d + 1)
    BY <1>1, LockOfKind DEF JobLock, Handover
  <2>2. o.d \in Nat \ {0} /\ o.d + 1 \in Nat \ {0}
    BY <1>0, <1>1 DEF Refused, OperandsRefused, NoBlockAfter, NoWindow
  <2>3. WindowOpen(first, s, n) <=> n <= s + o.d
    BY <2>1, <2>2, BothWindows
  <2>4. WindowOpen(second, s, n) <=> n >= s + (o.d + 1)
    BY <2>1, <2>2, SoleWindows
  <2>5. QED  BY <1>0, <2>3, <2>4
<1>2. CASE o.kind = "provider"
  <2>1. /\ first = Through(Both(o.key["buyer"], o.key["platform"]), o.d - 1)
        /\ second = From(Sole(o.key["provider"]), o.d)
    BY <1>2, LockOfKind DEF ProviderLock, Handover
  <2>2. o.d \in Nat \ {0} /\ o.d - 1 \in Nat \ {0}
    BY <1>0, <1>2 DEF Refused, OperandsRefused
  <2>3. WindowOpen(first, s, n) <=> n <= s + (o.d - 1)
    BY <2>1, <2>2, BothWindows
  <2>4. WindowOpen(second, s, n) <=> n >= s + o.d
    BY <2>1, <2>2, SoleWindows
  <2>5. QED  BY <1>0, <2>3, <2>4
<1>3. CASE o.kind = "ticket"
  <2>1. /\ first = ThroughHeight(Both(o.key["platform"], o.key["checker"]), o.d)
        /\ second = FromHeight(Sole(o.key["buyer"]), o.d + 1)
    BY <1>3, LockOfKind DEF TicketLock, Handover
  <2>2. o.d \in Nat \ {0} /\ o.d + 1 \in Nat \ {0}
    BY <1>0, <1>3 DEF Refused, OperandsRefused, NoBlockAfter, NoWindow
  <2>3. WindowOpen(first, s, n) <=> n <= o.d
    BY <2>1, <2>2, BothHeights
  <2>4. WindowOpen(second, s, n) <=> n >= o.d + 1
    BY <2>1, <2>2, SoleHeights
  <2>5. QED  BY <1>0, <2>3, <2>4
<1>4. CASE o.kind = "vouch"
  <2>1. /\ first = ThroughHeight(Both(o.key["buyer"], o.key["platform"]), o.d + o.e - 1)
        /\ second = FromHeight(Sole(o.key["checker"]), o.d + o.e)
    BY <1>4, LockOfKind DEF VouchLock, Handover
  <2>2. o.d + o.e \in Nat \ {0} /\ o.d + o.e - 1 \in Nat \ {0}
    BY <1>0, <1>4 DEF Refused, OperandsRefused
  <2>3. WindowOpen(first, s, n) <=> n <= o.d + o.e - 1
    BY <2>1, <2>2, BothHeights
  <2>4. WindowOpen(second, s, n) <=> n >= o.d + o.e
    BY <2>1, <2>2, SoleHeights
  <2>5. QED  BY <1>0, <2>3, <2>4
<1>5. CASE o.kind = "demand"
  <2>1. /\ first = Through(Sole(o.key["provider"]), o.d)
        /\ second = From(Sole(o.key["checker"]), o.d + 1)
    BY <1>5, LockOfKind DEF DemandLock, Handover
  <2>2. o.d \in Nat \ {0} /\ o.d + 1 \in Nat \ {0}
    BY <1>0, <1>5 DEF Refused, OperandsRefused, NoBlockAfter, NoWindow
  <2>3. WindowOpen(first, s, n) <=> n <= s + o.d
    BY <2>1, <2>2, SoleWindows
  <2>4. WindowOpen(second, s, n) <=> n >= s + (o.d + 1)
    BY <2>1, <2>2, SoleWindows
  <2>5. QED  BY <1>0, <2>3, <2>4
<1>6. QED  BY <1>0, <1>1, <1>2, <1>3, <1>4, <1>5

\* Branch b names exactly the keys ks and asks for a signature of each.
Demands(b, ks) == b.keys = ks /\ IsFiniteSet(ks) /\ Cardinality(ks) = b.m

\* The keys that a branch demands are the ones that it names.
LEMMA DemandsKeys ==
  ASSUME NEW b, NEW ks, Demands(b, ks)
  PROVE  b.keys = ks
BY DEF Demands

\* A one-key branch demands its key, whatever window it has.
LEMMA SoleDemands ==
  ASSUME NEW k, NEW d
  PROVE  /\ Demands(Sole(k), {k})
         /\ Demands(From(Sole(k), d), {k})
         /\ Demands(Through(Sole(k), d), {k})
         /\ Demands(FromHeight(Sole(k), d), {k})
         /\ Demands(ThroughHeight(Sole(k), d), {k})
<1>1. /\ IsFiniteSet({k}) /\ Cardinality({k}) = 1
  BY TwoKeys
<1>2. QED  BY <1>1 DEF Demands, Sole, Branch, From, Through, FromHeight, ThroughHeight

\* A two-key branch demands both, whatever window it has.
LEMMA BothDemands ==
  ASSUME NEW j, NEW k, j # k, NEW d
  PROVE  /\ Demands(Both(j, k), {j, k})
         /\ Demands(From(Both(j, k), d), {j, k})
         /\ Demands(Through(Both(j, k), d), {j, k})
         /\ Demands(FromHeight(Both(j, k), d), {j, k})
         /\ Demands(ThroughHeight(Both(j, k), d), {j, k})
<1>1. /\ IsFiniteSet({j, k}) /\ Cardinality({j, k}) = 2
  BY TwoKeys
<1>2. QED  BY <1>1 DEF Demands, Both, Branch, From, Through, FromHeight, ThroughHeight

\* No branch's signers can act for another, but for the owner's own branch, which
\* stands in for FAST and EXIT; and a branch is signed by all the keys it names.
Separate(o) ==
  \A via, agreed \in DOMAIN Lock(o) :
    /\ Demands(Lock(o)[via], Lock(o)[via].keys)
    /\ Lock(o)[via].keys \subseteq Lock(o)[agreed].keys =>
         \/ via = agreed
         \/ agreed \in {"FAST", "EXIT"} /\ via = OwnBranch[o.kind]

\* Only the branches listed as such have a party in common.
Apart(o) ==
  \A via, agreed \in DOMAIN Lock(o) :
    via # agreed /\ Lock(o)[via].keys \cap Lock(o)[agreed].keys # {} =>
      o.kind \in DOMAIN Shared /\ {via, agreed} \in Shared[o.kind]

\* Each branch names keys of the order, and bounds that are field elements.
Fits(o) ==
  \A b \in DOMAIN Lock(o) :
    /\ Lock(o)[b].keys \subseteq Keys
    /\ \A x \in Bounds(Lock(o)[b]) : x \in Nat /\ x < Prime

\* funding_lock: its branches are separate and apart, and fit the field.
LEMMA FundingBranches ==
  ASSUME NEW o \in Orders, ~Refused(o), o.kind = "funding"
  PROVE  Separate(o) /\ Apart(o) /\ Fits(o)
<1>1. Lock(o) = FundingLock(o)
  BY LockOfKind
<1>2. /\ DOMAIN Lock(o) = {"FAST", "RECOVER"}
      /\ Lock(o)["FAST"] = Both(o.key["buyer"], o.key["platform"])
      /\ Lock(o)["RECOVER"] = From(Sole(o.key["buyer"]), o.d)
  BY <1>1 DEF FundingLock
<1>3. o.key["buyer"] # o.key["platform"]
  BY DistinctKeys DEF RolesOf
<1>4. /\ Demands(Lock(o)["FAST"], {o.key["buyer"], o.key["platform"]})
      /\ Demands(Lock(o)["RECOVER"], {o.key["buyer"]})
  <2>1. Demands(Lock(o)["FAST"], {o.key["buyer"], o.key["platform"]})
    BY <1>2, <1>3, BothDemands
  <2>2. Demands(Lock(o)["RECOVER"], {o.key["buyer"]})
    BY <1>2, SoleDemands
  <2>3. QED  BY <2>1, <2>2
<1>4a. DOMAIN Lock(o) = {"FAST", "RECOVER"}
  BY <1>2
<1>4b. /\ Lock(o)["FAST"].keys = {o.key["buyer"], o.key["platform"]}
       /\ Lock(o)["RECOVER"].keys = {o.key["buyer"]}
  BY <1>4, DemandsKeys
<1>5. Separate(o)
  <2>1. \A via \in DOMAIN Lock(o) : Demands(Lock(o)[via], Lock(o)[via].keys)
    BY <1>4, <1>4a, <1>4b
  <2>2. ASSUME NEW via \in DOMAIN Lock(o), NEW agreed \in DOMAIN Lock(o), via # agreed,
               Lock(o)[via].keys \subseteq Lock(o)[agreed].keys
        PROVE  agreed \in {"FAST", "EXIT"} /\ via = OwnBranch[o.kind]
    <3>1. CASE via = "FAST"
      BY <1>3, <1>4a, <1>4b, <2>2, <3>1 DEF OwnBranch
    <3>2. CASE via = "RECOVER"
      BY <1>3, <1>4a, <1>4b, <2>2, <3>2 DEF OwnBranch
    <3>3. QED  BY <1>4a, <2>2, <3>1, <3>2
  <2>3. QED  BY <2>1, <2>2 DEF Separate
<1>5a. Apart(o)
  BY <1>4a DEF Apart, Shared
<1>6. {o.key["buyer"], o.key["platform"]} \subseteq Keys
  BY OrderType DEF RolesOf
<1>7. o.d \in Nat /\ o.d < Prime
  BY OrderType, LocksAssumption DEF Refused, OperandsRefused, NoWindow, NoBlockAfter
<1>8. \A b \in DOMAIN Lock(o) : \A x \in Bounds(Lock(o)[b]) : x \in Nat /\ x < Prime
  <2>1. \A x \in Bounds(Lock(o)["FAST"]) : x \in Nat /\ x < Prime
    BY <1>2, <1>7, LocksAssumption, PlainBounds, SoleBounds, BothBounds
  <2>2. \A x \in Bounds(Lock(o)["RECOVER"]) : x \in Nat /\ x < Prime
    BY <1>2, <1>7, LocksAssumption, PlainBounds, SoleBounds, BothBounds
  <2>3. QED  BY <1>4a, <2>1, <2>2
<1>9. Fits(o)
  <2>1. \A b \in DOMAIN Lock(o) : Lock(o)[b].keys \subseteq Keys
    BY <1>4a, <1>4b, <1>6
  <2>2. QED  BY <1>8, <2>1 DEF Fits
<1>10. QED  BY <1>5, <1>5a, <1>9

\* job_lock: its branches are separate and apart, and fit the field.
LEMMA JobBranches ==
  ASSUME NEW o \in Orders, ~Refused(o), o.kind = "job"
  PROVE  Separate(o) /\ Apart(o) /\ Fits(o)
<1>1. Lock(o) = JobLock(o)
  BY LockOfKind
<1>2. /\ DOMAIN Lock(o) = {"CAPTURE", "FAST", "RECOVER"}
      /\ Lock(o)["CAPTURE"] = Through(Both(o.key["platform"], o.key["provider"]), o.d)
      /\ Lock(o)["FAST"] = Both(o.key["buyer"], o.key["platform"])
      /\ Lock(o)["RECOVER"] = From(Sole(o.key["buyer"]), o.d + 1)
  BY <1>1 DEF JobLock
<1>3. /\ o.key["platform"] # o.key["provider"]
      /\ o.key["platform"] # o.key["buyer"]
      /\ o.key["provider"] # o.key["buyer"]
  BY DistinctKeys DEF RolesOf
<1>4. /\ Demands(Lock(o)["CAPTURE"], {o.key["platform"], o.key["provider"]})
      /\ Demands(Lock(o)["FAST"], {o.key["buyer"], o.key["platform"]})
      /\ Demands(Lock(o)["RECOVER"], {o.key["buyer"]})
  <2>1. Demands(Lock(o)["CAPTURE"], {o.key["platform"], o.key["provider"]})
    BY <1>2, <1>3, BothDemands
  <2>2. Demands(Lock(o)["FAST"], {o.key["buyer"], o.key["platform"]})
    BY <1>2, <1>3, BothDemands
  <2>3. Demands(Lock(o)["RECOVER"], {o.key["buyer"]})
    BY <1>2, SoleDemands
  <2>4. QED  BY <2>1, <2>2, <2>3
<1>4a. DOMAIN Lock(o) = {"CAPTURE", "FAST", "RECOVER"}
  BY <1>2
<1>4b. /\ Lock(o)["CAPTURE"].keys = {o.key["platform"], o.key["provider"]}
       /\ Lock(o)["FAST"].keys = {o.key["buyer"], o.key["platform"]}
       /\ Lock(o)["RECOVER"].keys = {o.key["buyer"]}
  BY <1>4, DemandsKeys
<1>5. Separate(o)
  <2>1. \A via \in DOMAIN Lock(o) : Demands(Lock(o)[via], Lock(o)[via].keys)
    BY <1>4, <1>4a, <1>4b
  <2>2. ASSUME NEW via \in DOMAIN Lock(o), NEW agreed \in DOMAIN Lock(o), via # agreed,
               Lock(o)[via].keys \subseteq Lock(o)[agreed].keys
        PROVE  agreed \in {"FAST", "EXIT"} /\ via = OwnBranch[o.kind]
    <3>1. CASE via = "CAPTURE"
      BY <1>3, <1>4a, <1>4b, <2>2, <3>1 DEF OwnBranch
    <3>2. CASE via = "FAST"
      BY <1>3, <1>4a, <1>4b, <2>2, <3>2 DEF OwnBranch
    <3>3. CASE via = "RECOVER"
      BY <1>3, <1>4a, <1>4b, <2>2, <3>3 DEF OwnBranch
    <3>4. QED  BY <1>4a, <2>2, <3>1, <3>2, <3>3
  <2>3. QED  BY <2>1, <2>2 DEF Separate
<1>5a. Apart(o)
  <2>1. Lock(o)["CAPTURE"].keys \cap Lock(o)["RECOVER"].keys = {}
    BY <1>3, <1>4b
  <2>2. QED  BY <1>4a, <2>1 DEF Apart, Shared
<1>6. {o.key["platform"], o.key["provider"], o.key["buyer"]} \subseteq Keys
  BY OrderType DEF RolesOf
<1>7. o.d \in Nat /\ o.d + 1 < Prime
  BY OrderType, LocksAssumption DEF Refused, OperandsRefused, NoWindow, NoBlockAfter
<1>8. \A b \in DOMAIN Lock(o) : \A x \in Bounds(Lock(o)[b]) : x \in Nat /\ x < Prime
  <2>1. \A x \in Bounds(Lock(o)["CAPTURE"]) : x \in Nat /\ x < Prime
    BY <1>2, <1>7, LocksAssumption, PlainBounds, SoleBounds, BothBounds
  <2>2. \A x \in Bounds(Lock(o)["FAST"]) : x \in Nat /\ x < Prime
    BY <1>2, <1>7, LocksAssumption, PlainBounds, SoleBounds, BothBounds
  <2>3. \A x \in Bounds(Lock(o)["RECOVER"]) : x \in Nat /\ x < Prime
    BY <1>2, <1>7, LocksAssumption, PlainBounds, SoleBounds, BothBounds
  <2>4. QED  BY <1>4a, <2>1, <2>2, <2>3
<1>9. Fits(o)
  <2>1. \A b \in DOMAIN Lock(o) : Lock(o)[b].keys \subseteq Keys
    BY <1>4a, <1>4b, <1>6
  <2>2. QED  BY <1>8, <2>1 DEF Fits
<1>10. QED  BY <1>5, <1>5a, <1>9

\* provider_lock: its branches are separate and apart, and fit the field.
LEMMA ProviderBranches ==
  ASSUME NEW o \in Orders, ~Refused(o), o.kind = "provider"
  PROVE  Separate(o) /\ Apart(o) /\ Fits(o)
<1>1. Lock(o) = ProviderLock(o)
  BY LockOfKind
<1>2. /\ DOMAIN Lock(o) = {"PAY", "CLAWBACK"}
      /\ Lock(o)["PAY"] = From(Sole(o.key["provider"]), o.d)
      /\ Lock(o)["CLAWBACK"] = Through(Both(o.key["buyer"], o.key["platform"]), o.d - 1)
  BY <1>1 DEF ProviderLock
<1>3. /\ o.key["provider"] # o.key["buyer"]
      /\ o.key["provider"] # o.key["platform"]
      /\ o.key["buyer"] # o.key["platform"]
  BY DistinctKeys DEF RolesOf
<1>4. /\ Demands(Lock(o)["PAY"], {o.key["provider"]})
      /\ Demands(Lock(o)["CLAWBACK"], {o.key["buyer"], o.key["platform"]})
  <2>1. Demands(Lock(o)["PAY"], {o.key["provider"]})
    BY <1>2, SoleDemands
  <2>2. Demands(Lock(o)["CLAWBACK"], {o.key["buyer"], o.key["platform"]})
    BY <1>2, <1>3, BothDemands
  <2>3. QED  BY <2>1, <2>2
<1>4a. DOMAIN Lock(o) = {"PAY", "CLAWBACK"}
  BY <1>2
<1>4b. /\ Lock(o)["PAY"].keys = {o.key["provider"]}
       /\ Lock(o)["CLAWBACK"].keys = {o.key["buyer"], o.key["platform"]}
  BY <1>4, DemandsKeys
<1>5. Separate(o)
  <2>1. \A via \in DOMAIN Lock(o) : Demands(Lock(o)[via], Lock(o)[via].keys)
    BY <1>4, <1>4a, <1>4b
  <2>2. ASSUME NEW via \in DOMAIN Lock(o), NEW agreed \in DOMAIN Lock(o), via # agreed,
               Lock(o)[via].keys \subseteq Lock(o)[agreed].keys
        PROVE  agreed \in {"FAST", "EXIT"} /\ via = OwnBranch[o.kind]
    <3>1. CASE via = "PAY"
      BY <1>3, <1>4a, <1>4b, <2>2, <3>1 DEF OwnBranch
    <3>2. CASE via = "CLAWBACK"
      BY <1>3, <1>4a, <1>4b, <2>2, <3>2 DEF OwnBranch
    <3>3. QED  BY <1>4a, <2>2, <3>1, <3>2
  <2>3. QED  BY <2>1, <2>2 DEF Separate
<1>5a. Apart(o)
  <2>1. Lock(o)["PAY"].keys \cap Lock(o)["CLAWBACK"].keys = {}
    BY <1>3, <1>4b
  <2>2. QED  BY <1>4a, <2>1 DEF Apart, Shared
<1>6. {o.key["provider"], o.key["buyer"], o.key["platform"]} \subseteq Keys
  BY OrderType DEF RolesOf
<1>7. o.d \in Nat /\ o.d >= 2 /\ o.d < Prime
  BY OrderType, LocksAssumption DEF Refused, OperandsRefused, NoWindow, NoBlockAfter
<1>8. \A b \in DOMAIN Lock(o) : \A x \in Bounds(Lock(o)[b]) : x \in Nat /\ x < Prime
  <2>1. \A x \in Bounds(Lock(o)["PAY"]) : x \in Nat /\ x < Prime
    BY <1>2, <1>7, LocksAssumption, PlainBounds, SoleBounds, BothBounds
  <2>2. \A x \in Bounds(Lock(o)["CLAWBACK"]) : x \in Nat /\ x < Prime
    BY <1>2, <1>7, LocksAssumption, PlainBounds, SoleBounds, BothBounds
  <2>3. QED  BY <1>4a, <2>1, <2>2
<1>9. Fits(o)
  <2>1. \A b \in DOMAIN Lock(o) : Lock(o)[b].keys \subseteq Keys
    BY <1>4a, <1>4b, <1>6
  <2>2. QED  BY <1>8, <2>1 DEF Fits
<1>10. QED  BY <1>5, <1>5a, <1>9

\* ticket_lock: its branches are separate and apart, and fit the field.
LEMMA TicketBranches ==
  ASSUME NEW o \in Orders, ~Refused(o), o.kind = "ticket"
  PROVE  Separate(o) /\ Apart(o) /\ Fits(o)
<1>1. Lock(o) = TicketLock(o)
  BY LockOfKind
<1>2. /\ DOMAIN Lock(o) = {"CAPTURE_CLEAN", "CLAIM", "RETURN"}
      /\ Lock(o)["CAPTURE_CLEAN"] = ThroughHeight(Both(o.key["platform"], o.key["checker"]), o.d)
      /\ Lock(o)["CLAIM"] = ThroughHeight(Both(o.key["verdict"], o.key["checker"]), o.e)
      /\ Lock(o)["RETURN"] = FromHeight(Sole(o.key["buyer"]), o.d + 1)
  BY <1>1 DEF TicketLock
<1>3. /\ o.key["platform"] # o.key["checker"]
      /\ o.key["platform"] # o.key["verdict"]
      /\ o.key["platform"] # o.key["buyer"]
      /\ o.key["checker"] # o.key["verdict"]
      /\ o.key["checker"] # o.key["buyer"]
      /\ o.key["verdict"] # o.key["buyer"]
  BY DistinctKeys DEF RolesOf
<1>4. /\ Demands(Lock(o)["CAPTURE_CLEAN"], {o.key["platform"], o.key["checker"]})
      /\ Demands(Lock(o)["CLAIM"], {o.key["verdict"], o.key["checker"]})
      /\ Demands(Lock(o)["RETURN"], {o.key["buyer"]})
  <2>1. Demands(Lock(o)["CAPTURE_CLEAN"], {o.key["platform"], o.key["checker"]})
    BY <1>2, <1>3, BothDemands
  <2>2. Demands(Lock(o)["CLAIM"], {o.key["verdict"], o.key["checker"]})
    BY <1>2, <1>3, BothDemands
  <2>3. Demands(Lock(o)["RETURN"], {o.key["buyer"]})
    BY <1>2, SoleDemands
  <2>4. QED  BY <2>1, <2>2, <2>3
<1>4a. DOMAIN Lock(o) = {"CAPTURE_CLEAN", "CLAIM", "RETURN"}
  BY <1>2
<1>4b. /\ Lock(o)["CAPTURE_CLEAN"].keys = {o.key["platform"], o.key["checker"]}
       /\ Lock(o)["CLAIM"].keys = {o.key["verdict"], o.key["checker"]}
       /\ Lock(o)["RETURN"].keys = {o.key["buyer"]}
  BY <1>4, DemandsKeys
<1>5. Separate(o)
  <2>1. \A via \in DOMAIN Lock(o) : Demands(Lock(o)[via], Lock(o)[via].keys)
    BY <1>4, <1>4a, <1>4b
  <2>2. ASSUME NEW via \in DOMAIN Lock(o), NEW agreed \in DOMAIN Lock(o), via # agreed,
               Lock(o)[via].keys \subseteq Lock(o)[agreed].keys
        PROVE  agreed \in {"FAST", "EXIT"} /\ via = OwnBranch[o.kind]
    <3>1. CASE via = "CAPTURE_CLEAN"
      BY <1>3, <1>4a, <1>4b, <2>2, <3>1 DEF OwnBranch
    <3>2. CASE via = "CLAIM"
      BY <1>3, <1>4a, <1>4b, <2>2, <3>2 DEF OwnBranch
    <3>3. CASE via = "RETURN"
      BY <1>3, <1>4a, <1>4b, <2>2, <3>3 DEF OwnBranch
    <3>4. QED  BY <1>4a, <2>2, <3>1, <3>2, <3>3
  <2>3. QED  BY <2>1, <2>2 DEF Separate
<1>5a. Apart(o)
  <2>1. Lock(o)["CAPTURE_CLEAN"].keys \cap Lock(o)["RETURN"].keys = {}
    BY <1>3, <1>4b
  <2>2. Lock(o)["CLAIM"].keys \cap Lock(o)["RETURN"].keys = {}
    BY <1>3, <1>4b
  <2>3. QED  BY <1>4a, <2>1, <2>2 DEF Apart, Shared
<1>6. {o.key["platform"], o.key["checker"], o.key["verdict"], o.key["buyer"]} \subseteq Keys
  BY OrderType DEF RolesOf
<1>7. /\ o.d \in Nat /\ o.d + 1 < Prime
      /\ o.e \in Nat /\ o.e < Prime
  BY OrderType, LocksAssumption DEF Refused, OperandsRefused, NoWindow, NoBlockAfter
<1>8. \A b \in DOMAIN Lock(o) : \A x \in Bounds(Lock(o)[b]) : x \in Nat /\ x < Prime
  <2>1. \A x \in Bounds(Lock(o)["CAPTURE_CLEAN"]) : x \in Nat /\ x < Prime
    BY <1>2, <1>7, LocksAssumption, PlainBounds, SoleBounds, BothBounds
  <2>2. \A x \in Bounds(Lock(o)["CLAIM"]) : x \in Nat /\ x < Prime
    BY <1>2, <1>7, LocksAssumption, PlainBounds, SoleBounds, BothBounds
  <2>3. \A x \in Bounds(Lock(o)["RETURN"]) : x \in Nat /\ x < Prime
    BY <1>2, <1>7, LocksAssumption, PlainBounds, SoleBounds, BothBounds
  <2>4. QED  BY <1>4a, <2>1, <2>2, <2>3
<1>9. Fits(o)
  <2>1. \A b \in DOMAIN Lock(o) : Lock(o)[b].keys \subseteq Keys
    BY <1>4a, <1>4b, <1>6
  <2>2. QED  BY <1>8, <2>1 DEF Fits
<1>10. QED  BY <1>5, <1>5a, <1>9

\* vouch_lock: its branches are separate and apart, and fit the field.
LEMMA VouchBranches ==
  ASSUME NEW o \in Orders, ~Refused(o), o.kind = "vouch"
  PROVE  Separate(o) /\ Apart(o) /\ Fits(o)
<1>1. Lock(o) = VouchLock(o)
  BY LockOfKind
<1>2. /\ DOMAIN Lock(o) = {"PAY", "CLAWBACK"}
      /\ Lock(o)["PAY"] = FromHeight(Sole(o.key["checker"]), o.d + o.e)
      /\ Lock(o)["CLAWBACK"] = ThroughHeight(Both(o.key["buyer"], o.key["platform"]), o.d + o.e - 1)
  BY <1>1 DEF VouchLock
<1>3. /\ o.key["checker"] # o.key["buyer"]
      /\ o.key["checker"] # o.key["platform"]
      /\ o.key["buyer"] # o.key["platform"]
  BY DistinctKeys DEF RolesOf
<1>4. /\ Demands(Lock(o)["PAY"], {o.key["checker"]})
      /\ Demands(Lock(o)["CLAWBACK"], {o.key["buyer"], o.key["platform"]})
  <2>1. Demands(Lock(o)["PAY"], {o.key["checker"]})
    BY <1>2, SoleDemands
  <2>2. Demands(Lock(o)["CLAWBACK"], {o.key["buyer"], o.key["platform"]})
    BY <1>2, <1>3, BothDemands
  <2>3. QED  BY <2>1, <2>2
<1>4a. DOMAIN Lock(o) = {"PAY", "CLAWBACK"}
  BY <1>2
<1>4b. /\ Lock(o)["PAY"].keys = {o.key["checker"]}
       /\ Lock(o)["CLAWBACK"].keys = {o.key["buyer"], o.key["platform"]}
  BY <1>4, DemandsKeys
<1>5. Separate(o)
  <2>1. \A via \in DOMAIN Lock(o) : Demands(Lock(o)[via], Lock(o)[via].keys)
    BY <1>4, <1>4a, <1>4b
  <2>2. ASSUME NEW via \in DOMAIN Lock(o), NEW agreed \in DOMAIN Lock(o), via # agreed,
               Lock(o)[via].keys \subseteq Lock(o)[agreed].keys
        PROVE  agreed \in {"FAST", "EXIT"} /\ via = OwnBranch[o.kind]
    <3>1. CASE via = "PAY"
      BY <1>3, <1>4a, <1>4b, <2>2, <3>1 DEF OwnBranch
    <3>2. CASE via = "CLAWBACK"
      BY <1>3, <1>4a, <1>4b, <2>2, <3>2 DEF OwnBranch
    <3>3. QED  BY <1>4a, <2>2, <3>1, <3>2
  <2>3. QED  BY <2>1, <2>2 DEF Separate
<1>5a. Apart(o)
  <2>1. Lock(o)["PAY"].keys \cap Lock(o)["CLAWBACK"].keys = {}
    BY <1>3, <1>4b
  <2>2. QED  BY <1>4a, <2>1 DEF Apart, Shared
<1>6. {o.key["checker"], o.key["buyer"], o.key["platform"]} \subseteq Keys
  BY OrderType DEF RolesOf
<1>7. /\ o.d \in Nat /\ o.e \in Nat /\ o.e >= 2
      /\ o.d + o.e < Prime
  BY OrderType, LocksAssumption DEF Refused, OperandsRefused, NoWindow, NoBlockAfter
<1>8. \A b \in DOMAIN Lock(o) : \A x \in Bounds(Lock(o)[b]) : x \in Nat /\ x < Prime
  <2>1. \A x \in Bounds(Lock(o)["PAY"]) : x \in Nat /\ x < Prime
    BY <1>2, <1>7, LocksAssumption, PlainBounds, SoleBounds, BothBounds
  <2>2. \A x \in Bounds(Lock(o)["CLAWBACK"]) : x \in Nat /\ x < Prime
    BY <1>2, <1>7, LocksAssumption, PlainBounds, SoleBounds, BothBounds
  <2>3. QED  BY <1>4a, <2>1, <2>2
<1>9. Fits(o)
  <2>1. \A b \in DOMAIN Lock(o) : Lock(o)[b].keys \subseteq Keys
    BY <1>4a, <1>4b, <1>6
  <2>2. QED  BY <1>8, <2>1 DEF Fits
<1>10. QED  BY <1>5, <1>5a, <1>9

\* demand_lock: its branches are separate and apart, and fit the field.
LEMMA DemandBranches ==
  ASSUME NEW o \in Orders, ~Refused(o), o.kind = "demand"
  PROVE  Separate(o) /\ Apart(o) /\ Fits(o)
<1>1. Lock(o) = DemandLock(o)
  BY LockOfKind
<1>2. /\ DOMAIN Lock(o) = {"ANSWER", "EXPIRED"}
      /\ Lock(o)["ANSWER"] = Through(Sole(o.key["provider"]), o.d)
      /\ Lock(o)["EXPIRED"] = From(Sole(o.key["checker"]), o.d + 1)
  BY <1>1 DEF DemandLock
<1>3. o.key["provider"] # o.key["checker"]
  BY DistinctKeys DEF RolesOf
<1>4. /\ Demands(Lock(o)["ANSWER"], {o.key["provider"]})
      /\ Demands(Lock(o)["EXPIRED"], {o.key["checker"]})
  <2>1. Demands(Lock(o)["ANSWER"], {o.key["provider"]})
    BY <1>2, SoleDemands
  <2>2. Demands(Lock(o)["EXPIRED"], {o.key["checker"]})
    BY <1>2, SoleDemands
  <2>3. QED  BY <2>1, <2>2
<1>4a. DOMAIN Lock(o) = {"ANSWER", "EXPIRED"}
  BY <1>2
<1>4b. /\ Lock(o)["ANSWER"].keys = {o.key["provider"]}
       /\ Lock(o)["EXPIRED"].keys = {o.key["checker"]}
  BY <1>4, DemandsKeys
<1>5. Separate(o)
  <2>1. \A via \in DOMAIN Lock(o) : Demands(Lock(o)[via], Lock(o)[via].keys)
    BY <1>4, <1>4a, <1>4b
  <2>2. ASSUME NEW via \in DOMAIN Lock(o), NEW agreed \in DOMAIN Lock(o), via # agreed,
               Lock(o)[via].keys \subseteq Lock(o)[agreed].keys
        PROVE  agreed \in {"FAST", "EXIT"} /\ via = OwnBranch[o.kind]
    <3>1. CASE via = "ANSWER"
      BY <1>3, <1>4a, <1>4b, <2>2, <3>1 DEF OwnBranch
    <3>2. CASE via = "EXPIRED"
      BY <1>3, <1>4a, <1>4b, <2>2, <3>2 DEF OwnBranch
    <3>3. QED  BY <1>4a, <2>2, <3>1, <3>2
  <2>3. QED  BY <2>1, <2>2 DEF Separate
<1>5a. Apart(o)
  <2>1. Lock(o)["ANSWER"].keys \cap Lock(o)["EXPIRED"].keys = {}
    BY <1>3, <1>4b
  <2>2. QED  BY <1>4a, <2>1 DEF Apart, Shared
<1>6. {o.key["provider"], o.key["checker"]} \subseteq Keys
  BY OrderType DEF RolesOf
<1>7. o.d \in Nat /\ o.d + 1 < Prime
  BY OrderType, LocksAssumption DEF Refused, OperandsRefused, NoWindow, NoBlockAfter
<1>8. \A b \in DOMAIN Lock(o) : \A x \in Bounds(Lock(o)[b]) : x \in Nat /\ x < Prime
  <2>1. \A x \in Bounds(Lock(o)["ANSWER"]) : x \in Nat /\ x < Prime
    BY <1>2, <1>7, LocksAssumption, PlainBounds, SoleBounds
  <2>2. \A x \in Bounds(Lock(o)["EXPIRED"]) : x \in Nat /\ x < Prime
    BY <1>2, <1>7, LocksAssumption, PlainBounds, SoleBounds
  <2>3. QED  BY <1>4a, <2>1, <2>2
<1>9. Fits(o)
  <2>1. \A b \in DOMAIN Lock(o) : Lock(o)[b].keys \subseteq Keys
    BY <1>4a, <1>4b, <1>6
  <2>2. QED  BY <1>8, <2>1 DEF Fits
<1>10. QED  BY <1>5, <1>5a, <1>9

\* slice_lock: its branches are separate and apart, and fit the field.
LEMMA SliceBranches ==
  ASSUME NEW o \in Orders, ~Refused(o), o.kind = "slice"
  PROVE  Separate(o) /\ Apart(o) /\ Fits(o)
<1>1. Lock(o) = SliceLock(o)
  BY LockOfKind
<1>2. /\ DOMAIN Lock(o) = {"SLASH", "EXIT", "FALLBACK"}
      /\ Lock(o)["SLASH"] = Both(o.key["slasher"], o.key["verdict"])
      /\ Lock(o)["EXIT"] = Both(o.key["holder"], o.key["platform"])
      /\ Lock(o)["FALLBACK"] = From(Sole(o.key["holder"]), o.d)
  BY <1>1 DEF SliceLock
<1>3. /\ o.key["slasher"] # o.key["verdict"]
      /\ o.key["slasher"] # o.key["holder"]
      /\ o.key["slasher"] # o.key["platform"]
      /\ o.key["verdict"] # o.key["holder"]
      /\ o.key["verdict"] # o.key["platform"]
      /\ o.key["holder"] # o.key["platform"]
  BY DistinctKeys DEF RolesOf
<1>4. /\ Demands(Lock(o)["SLASH"], {o.key["slasher"], o.key["verdict"]})
      /\ Demands(Lock(o)["EXIT"], {o.key["holder"], o.key["platform"]})
      /\ Demands(Lock(o)["FALLBACK"], {o.key["holder"]})
  <2>1. Demands(Lock(o)["SLASH"], {o.key["slasher"], o.key["verdict"]})
    BY <1>2, <1>3, BothDemands
  <2>2. Demands(Lock(o)["EXIT"], {o.key["holder"], o.key["platform"]})
    BY <1>2, <1>3, BothDemands
  <2>3. Demands(Lock(o)["FALLBACK"], {o.key["holder"]})
    BY <1>2, SoleDemands
  <2>4. QED  BY <2>1, <2>2, <2>3
<1>4a. DOMAIN Lock(o) = {"SLASH", "EXIT", "FALLBACK"}
  BY <1>2
<1>4b. /\ Lock(o)["SLASH"].keys = {o.key["slasher"], o.key["verdict"]}
       /\ Lock(o)["EXIT"].keys = {o.key["holder"], o.key["platform"]}
       /\ Lock(o)["FALLBACK"].keys = {o.key["holder"]}
  BY <1>4, DemandsKeys
<1>5. Separate(o)
  <2>1. \A via \in DOMAIN Lock(o) : Demands(Lock(o)[via], Lock(o)[via].keys)
    BY <1>4, <1>4a, <1>4b
  <2>2. ASSUME NEW via \in DOMAIN Lock(o), NEW agreed \in DOMAIN Lock(o), via # agreed,
               Lock(o)[via].keys \subseteq Lock(o)[agreed].keys
        PROVE  agreed \in {"FAST", "EXIT"} /\ via = OwnBranch[o.kind]
    <3>1. CASE via = "SLASH"
      BY <1>3, <1>4a, <1>4b, <2>2, <3>1 DEF OwnBranch
    <3>2. CASE via = "EXIT"
      BY <1>3, <1>4a, <1>4b, <2>2, <3>2 DEF OwnBranch
    <3>3. CASE via = "FALLBACK"
      BY <1>3, <1>4a, <1>4b, <2>2, <3>3 DEF OwnBranch
    <3>4. QED  BY <1>4a, <2>2, <3>1, <3>2, <3>3
  <2>3. QED  BY <2>1, <2>2 DEF Separate
<1>5a. Apart(o)
  <2>1. Lock(o)["SLASH"].keys \cap Lock(o)["EXIT"].keys = {}
    BY <1>3, <1>4b
  <2>2. Lock(o)["SLASH"].keys \cap Lock(o)["FALLBACK"].keys = {}
    BY <1>3, <1>4b
  <2>3. QED  BY <1>4a, <2>1, <2>2 DEF Apart, Shared
<1>6. {o.key["slasher"], o.key["verdict"], o.key["holder"], o.key["platform"]} \subseteq Keys
  BY OrderType DEF RolesOf
<1>7. o.d \in Nat /\ o.d < Prime
  BY OrderType, LocksAssumption DEF Refused, OperandsRefused, NoWindow, NoBlockAfter
<1>8. \A b \in DOMAIN Lock(o) : \A x \in Bounds(Lock(o)[b]) : x \in Nat /\ x < Prime
  <2>1. \A x \in Bounds(Lock(o)["SLASH"]) : x \in Nat /\ x < Prime
    BY <1>2, <1>7, LocksAssumption, PlainBounds, SoleBounds, BothBounds
  <2>2. \A x \in Bounds(Lock(o)["EXIT"]) : x \in Nat /\ x < Prime
    BY <1>2, <1>7, LocksAssumption, PlainBounds, SoleBounds, BothBounds
  <2>3. \A x \in Bounds(Lock(o)["FALLBACK"]) : x \in Nat /\ x < Prime
    BY <1>2, <1>7, LocksAssumption, PlainBounds, SoleBounds, BothBounds
  <2>4. QED  BY <1>4a, <2>1, <2>2, <2>3
<1>9. Fits(o)
  <2>1. \A b \in DOMAIN Lock(o) : Lock(o)[b].keys \subseteq Keys
    BY <1>4a, <1>4b, <1>6
  <2>2. QED  BY <1>8, <2>1 DEF Fits
<1>10. QED  BY <1>5, <1>5a, <1>9

\* held_lock: its branches are separate and apart, and fit the field.
LEMMA HeldBranches ==
  ASSUME NEW o \in Orders, ~Refused(o), o.kind = "held"
  PROVE  Separate(o) /\ Apart(o) /\ Fits(o)
<1>1. Lock(o) = HeldLock(o)
  BY LockOfKind
<1>2. /\ DOMAIN Lock(o) = {"RELEASE"}
      /\ Lock(o)["RELEASE"] = From(Sole(o.key["holder"]), o.d)
  BY <1>1 DEF HeldLock
<1>3. Demands(Lock(o)["RELEASE"], {o.key["holder"]})
  BY <1>2, SoleDemands
<1>4. Separate(o)
  BY <1>2, <1>3 DEF Separate, Demands, OwnBranch
<1>4a. Apart(o)
  BY <1>2 DEF Apart
<1>5. {o.key["holder"]} \subseteq Keys
  BY OrderType DEF RolesOf
<1>6. o.d \in Nat /\ o.d < Prime
  BY OrderType, LocksAssumption DEF Refused, OperandsRefused, NoWindow, NoBlockAfter
<1>7. \A b \in DOMAIN Lock(o) : \A x \in Bounds(Lock(o)[b]) : x \in Nat /\ x < Prime
  BY <1>2, <1>6, LocksAssumption, PlainBounds, SoleBounds
<1>8. Fits(o)
  BY <1>2, <1>3, <1>5, <1>7 DEF Fits, Demands
<1>9. QED  BY <1>4, <1>4a, <1>8

\* reward_lock: its branches are separate and apart, and fit the field.
LEMMA RewardBranches ==
  ASSUME NEW o \in Orders, ~Refused(o), o.kind = "reward"
  PROVE  Separate(o) /\ Apart(o) /\ Fits(o)
<1>1. Lock(o) = RewardLock(o)
  BY LockOfKind
<1>2. /\ DOMAIN Lock(o) = {"PAY"}
      /\ Lock(o)["PAY"] = Sole(o.key["verdict"])
  BY <1>1 DEF RewardLock
<1>3. Demands(Lock(o)["PAY"], {o.key["verdict"]})
  BY <1>2, SoleDemands
<1>4. Separate(o)
  BY <1>2, <1>3 DEF Separate, Demands, OwnBranch
<1>4a. Apart(o)
  BY <1>2 DEF Apart
<1>5. {o.key["verdict"]} \subseteq Keys
  BY OrderType DEF RolesOf
<1>6. \A b \in DOMAIN Lock(o) : \A x \in Bounds(Lock(o)[b]) : x \in Nat /\ x < Prime
  BY <1>2, LocksAssumption, PlainBounds, SoleBounds
<1>7. Fits(o)
  BY <1>2, <1>3, <1>5, <1>6 DEF Fits, Demands
<1>8. QED  BY <1>4, <1>4a, <1>7

\* Each lock that the SDK builds has branches that are separate and apart, and fit the field.
LEMMA AllBranches ==
  ASSUME NEW o \in Orders, ~Refused(o)
  PROVE  Separate(o) /\ Apart(o) /\ Fits(o)
BY OrderType, KindNames, FundingBranches, JobBranches, ProviderBranches, TicketBranches,
   VouchBranches, DemandBranches, SliceBranches, HeldBranches, RewardBranches

\* The branches excepted in Separate have no window to be escaped.
LEMMA NoDeadline ==
  ASSUME NEW o \in Orders, NEW b \in DOMAIN Lock(o), b \in {"FAST", "EXIT"},
         NEW s \in Nat, NEW n \in Nat
  PROVE  WindowOpen(Lock(o)[b], s, n)
<1>0. o.kind \in Kinds
  BY OrderType
<1>1. \E j, k : Lock(o)[b] = Both(j, k)
  BY <1>0, KindNames, LockOfKind DEF FundingLock, JobLock, ProviderLock, TicketLock,
     VouchLock, DemandLock, SliceLock, HeldLock, RewardLock
<1>2. QED  BY <1>1, BothWindows

-----------------------------------------------------------------------------
(* The life of a note *)

\* What was built was not refused; anybody signs; and a spent note was spent with a
\* witness, in the window of the branch revealed.
LifeInv ==
  /\ order \in Orders
  /\ status \in {"asked", "refused", "built", "landed", "spent"}
  /\ height \in Nat /\ since \in Nat /\ since <= height
  /\ status \notin {"asked", "refused"} => ~Refused(order)
  /\ signed \subseteq Keys \X Branches
  /\ status # "spent" => spend = NoSpend
  /\ status = "spent" =>
       /\ spend \in [via : Branches, agreed : Branches, by : SUBSET Keys, at : Nat]
       /\ Witness(spend.by, spend.via, spend.agreed)
       /\ WindowOpen(Lock(order)[spend.via], since, spend.at)

\* A note begins with an order that nothing was done for.
LEMMA LifeInit == Init => LifeInv
BY DEF Init, LifeInv

\* Building, signing, landing, spending and waiting keep it.
LEMMA LifeNext == LifeInv /\ [Next]_vars => LifeInv'
<1> SUFFICES ASSUME LifeInv, [Next]_vars PROVE LifeInv'
  OBVIOUS
<1> USE DEF Branches
<1>1. CASE Build
  BY <1>1 DEF Build, LifeInv
<1>2. CASE Land
  BY <1>2 DEF Land, LifeInv
<1>3. CASE Tick
  BY <1>3 DEF Tick, LifeInv
<1>4. ASSUME NEW k \in Keys, NEW b \in Branches, Sign(k, b)
      PROVE  LifeInv'
  BY <1>4 DEF LifeInv, Sign
<1>5. ASSUME NEW via \in Branches, NEW agreed \in Branches,
             NEW keys \in SUBSET Lock(order)[via].keys, Spend(keys, via, agreed)
      PROVE  LifeInv'
  <2>1. /\ spend' = [via |-> via, agreed |-> agreed, by |-> keys, at |-> height]
        /\ status = "landed" /\ status' = "spent"
        /\ UNCHANGED <<order, height, since, signed>>
        /\ Witness(keys, via, agreed) /\ WindowOpen(Lock(order)[via], since, height)
    BY <1>5 DEF Spend
  <2>2. Witness(keys, via, agreed)'
    BY <2>1 DEF Witness
  <2>3. keys \subseteq Keys
    BY <2>1, AllBranches DEF LifeInv, Fits
  <2>4. QED  BY <2>1, <2>2, <2>3 DEF LifeInv
<1>6. CASE UNCHANGED vars
  BY <1>6 DEF vars, LifeInv, Witness
<1>7. QED  BY <1>1, <1>2, <1>3, <1>4, <1>5, <1>6 DEF Next

\* LifeInv is an invariant of the life of a note.
THEOREM LifeCorrect == Spec => []LifeInv
BY LifeInit, LifeNext, PTL DEF Spec

\* A spent note was spent by all keys of the branch revealed.  If the branch meant names
\* them all, it is that branch, or one that its owner needs nobody for later.
LEMMA SpentAsAgreed ==
  ASSUME LifeInv, status = "spent"
  PROVE  /\ spend.by = Lock(order)[spend.via].keys
         /\ spend.by \subseteq Parties =>
              \/ spend.via = spend.agreed
              \/ spend.agreed \in {"FAST", "EXIT"} /\ spend.via = OwnBranch[order.kind]
<1>1. /\ order \in Orders /\ ~Refused(order)
      /\ spend.via \in DOMAIN Lock(order) /\ spend.agreed \in DOMAIN Lock(order)
      /\ Witness(spend.by, spend.via, spend.agreed)
  BY DEF LifeInv, Branches
<1>2. Separate(order)
  BY <1>1, AllBranches
<1>3. spend.by = Lock(order)[spend.via].keys
  <2>1. Demands(Lock(order)[spend.via], Lock(order)[spend.via].keys)
    BY <1>1, <1>2 DEF Separate
  <2>2. QED  BY <1>1, <2>1, FS_Subset DEF Demands, Witness
<1>4. QED  BY <1>1, <1>2, <1>3 DEF Separate, Parties

\* TypeOK: the bounds of every lock that is built are field elements.
THEOREM TypeCorrect == Spec => []TypeOK
<1>1. LifeInv => TypeOK
  BY AllBranches DEF LifeInv, TypeOK, Fits, Branches
<1>2. QED  BY <1>1, LifeCorrect, PTL

\* WindowsMeet: whatever deadline a constructor accepts, exactly one of the two
\* branches is open at each height.
THEOREM WindowsMeetCorrect == Spec => []WindowsMeet
<1>1. LifeInv => WindowsMeet
  <2> SUFFICES ASSUME LifeInv, status = "landed", order.kind \in DOMAIN Handover
               PROVE  Open(Handover[order.kind][1]) # Open(Handover[order.kind][2])
    BY DEF WindowsMeet
  <2>1. Open(Handover[order.kind][1]) <=> ~Open(Handover[order.kind][2])
    BY HandOver DEF LifeInv, Open
  <2>2. QED  BY <2>1 DEF Open, WindowOpen
<1>2. QED  BY <1>1, LifeCorrect, PTL

\* WindowsBind: signatures of those that a branch names have a transaction mined in the
\* window of that branch.
THEOREM WindowsBindCorrect == Spec => []WindowsBind
<1>1. LifeInv => WindowsBind
  <2> SUFFICES ASSUME LifeInv, status = "spent", spend.by \subseteq Parties
               PROVE  WindowOpen(Lock(order)[spend.agreed], since, spend.at)
    BY DEF WindowsBind
  <2>1. CASE spend.via = spend.agreed
    BY <2>1 DEF LifeInv
  <2>2. CASE spend.agreed \in {"FAST", "EXIT"}
    BY <2>2, NoDeadline DEF LifeInv, Branches
  <2>3. QED  BY <2>1, <2>2, SpentAsAgreed
<1>2. QED  BY <1>1, LifeCorrect, PTL

\* AgreedByAll: some of those signatures alone are not completed by way of another branch.
THEOREM AgreedByAllCorrect == Spec => []AgreedByAll
<1>1. LifeInv => AgreedByAll
  BY SpentAsAgreed DEF AgreedByAll, Parties
<1>2. QED  BY <1>1, LifeCorrect, PTL

\* SignaturesStay: whoever else signs, a signature serves no branch but the one meant and
\* those that share a party with it.
THEOREM SignaturesStayCorrect == Spec => []SignaturesStay
<1>1. LifeInv => SignaturesStay
  <2> SUFFICES ASSUME LifeInv, status = "spent", spend.by \cap Parties # {},
                      spend.via # spend.agreed
               PROVE  /\ order.kind \in DOMAIN Shared
                      /\ {spend.via, spend.agreed} \in Shared[order.kind]
    BY DEF SignaturesStay
  <2>1. Apart(order) /\ spend.via \in DOMAIN Lock(order) /\ spend.agreed \in DOMAIN Lock(order)
    BY AllBranches DEF LifeInv, Branches
  <2>2. Lock(order)[spend.via].keys \cap Lock(order)[spend.agreed].keys # {}
    BY SpentAsAgreed DEF Parties
  <2>3. QED  BY <2>1, <2>2 DEF Apart
<1>2. QED  BY <1>1, LifeCorrect, PTL

\* LocksBind: what was agreed on for a note is what becomes of it, and when.
THEOREM LocksBindCorrect == Spec => []LocksBind
<1>1. WindowsMeet /\ WindowsBind /\ AgreedByAll /\ SignaturesStay => LocksBind
  BY DEF LocksBind
<1>2. QED
  BY <1>1, WindowsMeetCorrect, WindowsBindCorrect, AgreedByAllCorrect, SignaturesStayCorrect, PTL

-----------------------------------------------------------------------------
(* Seeds and groups *)

IsSpend(sp) == sp = [seeds |-> sp.seeds, fee |-> sp.fee, signed |-> sp.signed]
IsSeed(s) == s = [root |-> s.root, gift |-> s.gift, parent |-> s.parent, pin |-> s.pin]

\* Giving or taking a pin leaves the rest of a seed.
LEMMA PinOnly ==
  ASSUME NEW s, IsSeed(s), NEW pin
  PROVE  [s EXCEPT !.pin = pin] = [root |-> s.root, gift |-> s.gift, parent |-> s.parent, pin |-> pin]
  BY DEF IsSeed

\* What a seed is without its pin.
LEMMA StrippedKeeps ==
  ASSUME NEW s, IsSeed(s)
  PROVE  /\ Stripped(s) = [root |-> s.root, gift |-> s.gift, parent |-> s.parent, pin |-> <<>>]
         /\ Stripped(s).root = s.root /\ Stripped(s).parent = s.parent
  BY PinOnly DEF Stripped

\* What a pinned seed is.
LEMMA PinnedKeeps ==
  ASSUME NEW s, IsSeed(s), NEW pin
  PROVE  /\ IsSeed([s EXCEPT !.pin = pin])
         /\ [s EXCEPT !.pin = pin].root = s.root /\ [s EXCEPT !.pin = pin].parent = s.parent
         /\ [s EXCEPT !.pin = pin].pin = pin
         /\ Stripped([s EXCEPT !.pin = pin]) = Stripped(s)
<1> DEFINE t == [root |-> s.root, gift |-> s.gift, parent |-> s.parent, pin |-> pin]
<1>1. [s EXCEPT !.pin = pin] = t
  BY PinOnly
<1>2. IsSeed(t) /\ t.root = s.root /\ t.gift = s.gift /\ t.parent = s.parent /\ t.pin = pin
  BY DEF IsSeed
<1> HIDE DEF t
<1>3. Stripped(t) = Stripped(s)
  BY <1>2, StrippedKeeps
<1>4. QED
  BY <1>1, <1>2, <1>3

\* Seeds that are alike but for a pin, and have one pin, are one.
LEMMA StrippedApart ==
  ASSUME NEW s, IsSeed(s), NEW t, IsSeed(t), Stripped(s) = Stripped(t), s.pin = t.pin
  PROVE  s = t
<1>1. [root |-> s.root, gift |-> s.gift, parent |-> s.parent, pin |-> <<>>]
        = [root |-> t.root, gift |-> t.gift, parent |-> t.parent, pin |-> <<>>]
  BY StrippedKeeps
<1>2. s.root = t.root /\ s.gift = t.gift /\ s.parent = t.parent
  BY <1>1
<1>3. QED
  BY <1>2 DEF IsSeed

\* The seeds of a transaction are those of its spends.
LEMMA SeedsOfSpends ==
  ASSUME NEW tx, NEW s
  PROVE  s \in SeedsOf(tx) <=> \E c \in DOMAIN tx : s \in tx[c].seeds
  BY DEF SeedsOf

-----------------------------------------------------------------------------
(* The invariant *)

\* Our seeds: each has its coin for parent and is pinned to a group of seeds of our
\* coins, which after a pass over all our spends is that of its root in them.
OurSeeds ==
  /\ DOMAIN spends \subseteq OurCoins
  /\ \A c \in DOMAIN spends : IsSpend(spends[c])
  /\ \A c \in DOMAIN spends : \A s \in spends[c].seeds :
       /\ IsSeed(s) /\ s.parent = c
       /\ \E group : s.pin = <<group>> /\ \A g \in group : g.parent \in OurCoins
       /\ across => s.pin = <<GroupHash(SeedsOf(spends), s.root)>>

\* A transaction that was judged has our coins spent as we spend them, or not at all.
SentAsBuilt ==
  verdict # Nobody =>
    /\ \A c \in DOMAIN verdict.tx :
         /\ c \in OurCoins => c \in DOMAIN spends /\ verdict.tx[c] = spends[c]
         /\ \A s \in verdict.tx[c].seeds : IsSeed(s)
    /\ verdict.lands => Lands(verdict.tx)

PinInv == OurSeeds /\ SentAsBuilt

\* The group of a root in seeds that are all of our coins is of our coins.
LEMMA GroupIsOurs ==
  ASSUME NEW all, NEW root, \A s \in all : IsSeed(s) /\ s.parent \in OurCoins
  PROVE  \A g \in GroupHash(all, root) : g.parent \in OurCoins
  BY StrippedKeeps DEF GroupHash

\* A builder pins its own seeds.
LEMMA BuildKeeps ==
  ASSUME PinInv, NEW coin \in OurCoins, NEW lines, NEW fee, BuildCaptureSeeds(coin, lines, fee)
  PROVE  PinInv'
<1> DEFINE seeds == { Seed(lines[i].root, lines[i].amount, coin, <<>>) : i \in DOMAIN lines }
           mine == PinGroups(seeds, seeds)
<1>1. /\ verdict = Nobody /\ verdict' = verdict /\ across' = FALSE
      /\ spends' = [c \in DOMAIN spends \cup {coin} |->
           IF c = coin THEN [seeds |-> mine, fee |-> fee, signed |-> <<>>] ELSE spends[c]]
  BY DEF BuildCaptureSeeds
<1>2. \A s \in seeds : IsSeed(s) /\ s.parent = coin
  BY DEF Seed, IsSeed
<1> HIDE DEF seeds
<1>3. ASSUME NEW s \in mine
      PROVE  /\ IsSeed(s) /\ s.parent = coin
             /\ \E group : s.pin = <<group>> /\ \A g \in group : g.parent \in OurCoins
  <2>1. PICK t \in seeds : s = [t EXCEPT !.pin = <<GroupHash(seeds, t.root)>>]
    BY DEF PinGroups
  <2>2. IsSeed(s) /\ s.parent = coin /\ s.pin = <<GroupHash(seeds, t.root)>>
    BY <1>2, <2>1, PinnedKeeps
  <2>3. \A g \in GroupHash(seeds, t.root) : g.parent \in OurCoins
    BY <1>2, GroupIsOurs
  <2>4. QED
    BY <2>2, <2>3
<1> HIDE DEF mine
<1>4. DOMAIN spends' \subseteq OurCoins
  BY <1>1 DEF PinInv, OurSeeds
<1>5. ASSUME NEW c \in DOMAIN spends', NEW s \in spends'[c].seeds
      PROVE  /\ IsSeed(s) /\ s.parent = c
             /\ \E group : s.pin = <<group>> /\ \A g \in group : g.parent \in OurCoins
  <2>1. CASE c = coin
    BY <1>1, <1>3, <1>5, <2>1
  <2>2. CASE c # coin
    <3>1. c \in DOMAIN spends /\ s \in spends[c].seeds
      BY <1>1, <1>5, <2>2
    <3>2. QED
      BY <3>1 DEF PinInv, OurSeeds
  <2>3. QED
    BY <2>1, <2>2
<1>6. \A c \in DOMAIN spends' : IsSpend(spends'[c])
  BY <1>1 DEF PinInv, OurSeeds, IsSpend
<1>7. OurSeeds'
  <2>1. ~across'
    BY <1>1
  <2>2. QED
    BY <1>4, <1>5, <1>6, <2>1, Zenon DEF OurSeeds
<1>8. SentAsBuilt'
  BY <1>1 DEF SentAsBuilt
<1>9. QED
  BY <1>7, <1>8 DEF PinInv

\* A pass over all spends pins each seed to the group of its root, which it leaves as it is.
LEMMA AcrossKeeps ==
  ASSUME PinInv, PinAcross
  PROVE  PinInv'
<1> DEFINE all == SeedsOf(spends)
           pinned(s) == [s EXCEPT !.pin = <<GroupHash(all, s.root)>>]
<1>1. /\ verdict = Nobody /\ verdict' = verdict
      /\ spends' = [c \in DOMAIN spends |-> [spends[c] EXCEPT !.seeds = PinGroups(spends[c].seeds, all)]]
  BY DEF PinAcross
<1>2. \A s \in all : IsSeed(s) /\ s.parent \in OurCoins
  BY SeedsOfSpends DEF PinInv, OurSeeds
<1>3. \A s \in all : /\ IsSeed(pinned(s)) /\ pinned(s).root = s.root /\ pinned(s).parent = s.parent
                     /\ pinned(s).pin = <<GroupHash(all, s.root)>>
                     /\ Stripped(pinned(s)) = Stripped(s)
  BY <1>2, PinnedKeeps
<1> HIDE DEF pinned
<1>4. DOMAIN spends' = DOMAIN spends
  BY <1>1
<1>5. ASSUME NEW c \in DOMAIN spends PROVE spends'[c].seeds = { pinned(s) : s \in spends[c].seeds }
  <2>1. spends'[c].seeds = PinGroups(spends[c].seeds, all)
    BY <1>1 DEF PinInv, OurSeeds, IsSpend
  <2>2. QED
    BY <2>1 DEF PinGroups, pinned
<1>6. SeedsOf(spends') = { pinned(s) : s \in all }
  BY <1>4, <1>5 DEF SeedsOf
<1> HIDE DEF all
<1>7. \A root : GroupHash(SeedsOf(spends'), root) = GroupHash(all, root)
  <2> SUFFICES ASSUME NEW root PROVE GroupHash(SeedsOf(spends'), root) = GroupHash(all, root)
    OBVIOUS
  <2>1. ASSUME NEW g \in GroupHash(all, root) PROVE g \in GroupHash(SeedsOf(spends'), root)
    <3>1. PICK s \in all : s.root = root /\ g = Stripped(s)
      BY <2>1 DEF GroupHash
    <3>2. pinned(s) \in SeedsOf(spends') /\ pinned(s).root = root /\ g = Stripped(pinned(s))
      BY <1>3, <1>6, <3>1
    <3>3. QED
      BY <3>2 DEF GroupHash
  <2>2. ASSUME NEW g \in GroupHash(SeedsOf(spends'), root) PROVE g \in GroupHash(all, root)
    <3>1. PICK t \in SeedsOf(spends') : t.root = root /\ g = Stripped(t)
      BY <2>2 DEF GroupHash
    <3>2. PICK s \in all : t = pinned(s)
      BY <1>6, <3>1
    <3>3. s.root = root /\ g = Stripped(s)
      BY <1>3, <3>1, <3>2
    <3>4. QED
      BY <3>3 DEF GroupHash
  <2>3. QED
    BY <2>1, <2>2
<1>8. ASSUME NEW c \in DOMAIN spends', NEW t \in spends'[c].seeds
      PROVE  /\ IsSeed(t) /\ t.parent = c
             /\ \E group : t.pin = <<group>> /\ \A g \in group : g.parent \in OurCoins
             /\ t.pin = <<GroupHash(SeedsOf(spends'), t.root)>>
  <2>1. PICK s \in spends[c].seeds : t = pinned(s)
    BY <1>4, <1>5, <1>8
  <2>2. s \in all /\ s.parent = c
    BY <1>4, <2>1, SeedsOfSpends DEF all, PinInv, OurSeeds
  <2>3. IsSeed(t) /\ t.parent = c /\ t.root = s.root /\ t.pin = <<GroupHash(all, s.root)>>
    BY <1>3, <2>1, <2>2
  <2>4. \A g \in GroupHash(all, s.root) : g.parent \in OurCoins
    BY <1>2, GroupIsOurs
  <2>5. QED
    BY <1>7, <2>3, <2>4
<1>9. \A c \in DOMAIN spends' : IsSpend(spends'[c])
  <2> SUFFICES ASSUME NEW c \in DOMAIN spends PROVE IsSpend(spends'[c])
    BY <1>4
  <2>1. IsSpend(spends[c]) /\ spends'[c] = [spends[c] EXCEPT !.seeds = PinGroups(spends[c].seeds, all)]
    BY <1>1 DEF PinInv, OurSeeds
  <2>2. QED
    BY <2>1 DEF IsSpend
<1>10. OurSeeds'
  BY <1>4, <1>8, <1>9 DEF PinInv, OurSeeds
<1>11. SentAsBuilt'
  BY <1>1 DEF SentAsBuilt
<1>12. QED
  BY <1>10, <1>11 DEF PinInv

\* Signing a spend leaves its seeds.
LEMMA CosignKeeps ==
  ASSUME PinInv, NEW coin \in DOMAIN spends, Cosign(coin)
  PROVE  PinInv'
<1>1. /\ verdict = Nobody /\ verdict' = verdict /\ across' = across
      /\ spends' = [spends EXCEPT ![coin].signed = SigHash(spends[coin])]
  BY DEF Cosign
<1>2. DOMAIN spends' = DOMAIN spends
  BY <1>1
<1>3. ASSUME NEW c \in DOMAIN spends PROVE spends'[c].seeds = spends[c].seeds
  BY <1>1
<1>4. SeedsOf(spends') = SeedsOf(spends)
  BY <1>2, <1>3 DEF SeedsOf
<1>5. \A c \in DOMAIN spends' : IsSpend(spends'[c])
  BY <1>1 DEF PinInv, OurSeeds, IsSpend
<1>6. OurSeeds'
  BY <1>1, <1>2, <1>3, <1>4, <1>5 DEF PinInv, OurSeeds
<1>7. SentAsBuilt'
  BY <1>1 DEF SentAsBuilt
<1>8. QED
  BY <1>6, <1>7 DEF PinInv

\* The seeds that a stranger adds are seeds, in spends of its own coin.
LEMMA AddedAreSeeds ==
  ASSUME NEW coin, NEW ours, NEW added \in AddedSpends(coin, ours), NEW s \in added.seeds
  PROVE  IsSeed(s)
<1>1. PICK seeds \in PlainSeeds(coin), pinned \in BOOLEAN :
        added = [seeds |-> Given(seeds, ours, pinned), fee |-> 0, signed |-> <<Given(seeds, ours, pinned), 0>>]
  BY DEF AddedSpends
<1>2. s \in Given(seeds, ours, pinned)
  BY <1>1
<1>3. seeds \subseteq { Seed(r, g, coin, <<>>) : r \in LockRoots, g \in 0..Worth[coin] }
  BY DEF PlainSeeds
<1>4. \A x \in seeds : IsSeed(x)
  BY <1>3 DEF Seed, IsSeed
<1>5. PICK x \in seeds :
        s = IF pinned THEN [x EXCEPT !.pin = <<GroupHash(SeedsOf(ours) \cup seeds, x.root)>>] ELSE x
  BY <1>2, Zenon DEF Given
<1>6. QED
  BY <1>4, <1>5, PinnedKeeps

\* A judgement is of our spends as they are, with a stranger's at most.
LEMMA JudgedKeeps ==
  ASSUME PinInv, Send \/ Wrap
  PROVE  PinInv'
<1>1. ASSUME NEW sender, NEW tx, Judged(sender, tx),
             \A c \in DOMAIN tx : /\ c \in OurCoins => c \in DOMAIN spends /\ tx[c] = spends[c]
                                  /\ \A s \in tx[c].seeds : IsSeed(s)
      PROVE  PinInv'
  <2>1. /\ spends' = spends /\ across' = across
        /\ verdict'.tx = tx /\ verdict'.lands = Lands(tx)
    BY <1>1 DEF Judged
  <2>2. OurSeeds'
    BY <2>1 DEF PinInv, OurSeeds
  <2>3. SentAsBuilt'
    BY <1>1, <2>1, Zenon DEF SentAsBuilt
  <2>4. QED
    BY <2>2, <2>3 DEF PinInv
<1>2. \A c \in DOMAIN spends : \A s \in spends[c].seeds : IsSeed(s)
  BY DEF PinInv, OurSeeds
<1>3. CASE Send
  BY <1>1, <1>2, <1>3 DEF Send
<1>4. CASE Wrap
  <2>1. PICK kept \in SUBSET DOMAIN spends, coin \in TheirCoins :
          \/ Judged("stranger", Restrict(spends, kept))
          \/ \E added \in AddedSpends(coin, Restrict(spends, kept)) :
               Judged("stranger", [c \in kept \cup {coin} |-> IF c = coin THEN added ELSE spends[c]])
    BY <1>4, Zenon DEF Wrap
  <2>2. DOMAIN Restrict(spends, kept) = kept /\ \A c \in kept : Restrict(spends, kept)[c] = spends[c]
    BY DEF Restrict
  <2>3. coin \notin OurCoins
    BY PinsAssumption
  <2>4. CASE Judged("stranger", Restrict(spends, kept))
    BY <1>1, <1>2, <2>2, <2>4
  <2>5. ASSUME NEW added \in AddedSpends(coin, Restrict(spends, kept)),
               Judged("stranger", [c \in kept \cup {coin} |-> IF c = coin THEN added ELSE spends[c]])
        PROVE  PinInv'
    <3> DEFINE tx == [c \in kept \cup {coin} |-> IF c = coin THEN added ELSE spends[c]]
    <3>1. /\ DOMAIN tx = kept \cup {coin} /\ tx[coin] = added
          /\ \A c \in kept : c # coin => tx[c] = spends[c]
      OBVIOUS
    <3>2. Judged("stranger", tx)
      BY <2>5
    <3>3. \A s \in added.seeds : IsSeed(s)
      BY AddedAreSeeds
    <3> HIDE DEF tx
    <3>4. \A c \in DOMAIN tx : /\ c \in OurCoins => c \in DOMAIN spends /\ tx[c] = spends[c]
                               /\ \A s \in tx[c].seeds : IsSeed(s)
      BY <1>2, <2>3, <3>1, <3>3
    <3>5. QED
      BY <1>1, <3>2, <3>4
  <2>6. QED
    BY <2>1, <2>4, <2>5
<1>5. QED
  BY <1>3, <1>4

\* Each step keeps what is known of our seeds and of what was judged.
LEMMA PinNext == PinInv /\ [PinsNext]_pinVars => PinInv'
<1> SUFFICES ASSUME PinInv, [PinsNext]_pinVars PROVE PinInv'
  OBVIOUS
<1>1. CASE UNCHANGED pinVars
  BY <1>1 DEF pinVars, PinInv, OurSeeds, SentAsBuilt
<1>2. CASE PinsNext
  <2>1. \/ \E coin \in OurCoins : \E lines, fee : BuildCaptureSeeds(coin, lines, fee)
        \/ \E coin \in DOMAIN spends : Cosign(coin)
        \/ PinAcross \/ Send \/ Wrap
    BY <1>2, Zenon DEF PinsNext
  <2>2. QED
    BY <2>1, BuildKeeps, AcrossKeeps, CosignKeeps, JudgedKeeps, Zenon
<1>3. QED
  BY <1>1, <1>2

-----------------------------------------------------------------------------
(* What lands *)

\* A transaction that lands pays a root of ours as our pins say.
LEMMA LandsAsPinned ==
  ASSUME PinInv, verdict.lands, NEW root \in LockRoots,
         NEW s \in SeedsOf(verdict.tx), s \in SeedsOf(spends), s.root = root
  PROVE  s.pin = <<GroupHash(SeedsOf(verdict.tx), root)>>
<1> DEFINE tx == verdict.tx
           all == SeedsOf(tx)
           output == [seeds |-> { t \in all : t.root = root }, source |-> GroupHash(all, root)]
<1>1. Lands(tx)
  BY DEF PinInv, SentAsBuilt, Nobody
<1>2. root \in DOMAIN Outputs(tx) /\ Outputs(tx)[root] = output
  BY DEF Outputs
<1>3. OutputValid(output)
  BY <1>1, <1>2 DEF Lands
<1>4. output.seeds = { t \in all : t.root = root } /\ output.source = GroupHash(all, root)
  OBVIOUS
<1>5. s \in output.seeds
  BY <1>4
<1> HIDE DEF output
<1>6. s.pin = <<>> \/ s.pin = <<output.source>>
  BY <1>3, <1>5 DEF OutputValid
<1>7. \E group : s.pin = <<group>>
  BY SeedsOfSpends DEF PinInv, OurSeeds
<1>8. s.pin # <<>>
  BY <1>7
<1>9. QED
  BY <1>4, <1>6, <1>8

\* Whatever a stranger puts our spends into, for any coins, worths and numbers of
\* lines: nobody but us pays to our roots in what lands, and after a pass over all our
\* spends each root gets exactly what we pay there.
THEOREM OutputsAsSignedCorrect == PinsSpec => []OutputsAsSigned
<1>1. PinsInit => PinInv
  BY DEF PinsInit, PinInv, OurSeeds, SentAsBuilt
<1>2. PinInv => OutputsAsSigned
  <2> SUFFICES ASSUME PinInv, verdict.lands, NEW root \in LockRoots,
                      NEW s \in SeedsOf(verdict.tx), s \in SeedsOf(spends), s.root = root
               PROVE  LET paid == { t \in SeedsOf(verdict.tx) : t.root = root }
                          ours == { t \in SeedsOf(spends) : t.root = root }
                      IN  /\ \A t \in paid : t.parent \in OurCoins
                          /\ across => paid = ours
    BY DEF OutputsAsSigned
  <2> DEFINE all == SeedsOf(verdict.tx)
             paid == { t \in all : t.root = root }
             ours == { t \in SeedsOf(spends) : t.root = root }
  <2>1. Lands(verdict.tx) /\ verdict # Nobody
    BY DEF PinInv, SentAsBuilt, Nobody
  <2>2. s.pin = <<GroupHash(all, root)>>
    BY LandsAsPinned
  <2>3. \A t \in all : IsSeed(t)
    BY <2>1, SeedsOfSpends DEF PinInv, SentAsBuilt
  <2>4. \A g \in GroupHash(all, root) : g.parent \in OurCoins
    <3>1. PICK group : s.pin = <<group>> /\ \A g \in group : g.parent \in OurCoins
      BY SeedsOfSpends DEF PinInv, OurSeeds
    <3>2. group = GroupHash(all, root)
      BY <2>2, <3>1
    <3>3. QED
      BY <3>1, <3>2
  <2>5. ASSUME NEW t \in paid PROVE t.parent \in OurCoins
    <3>1. Stripped(t) \in GroupHash(all, root)
      BY DEF GroupHash
    <3>2. QED
      BY <2>3, <2>4, <3>1, StrippedKeeps
  <2>6. ASSUME NEW t \in paid PROVE t \in ours
    <3>1. PICK c \in DOMAIN verdict.tx : t \in verdict.tx[c].seeds
      BY SeedsOfSpends
    <3>2. t.parent = c
      BY <2>1, <3>1 DEF Lands, SpendValid
    <3>3. c \in DOMAIN spends /\ t \in spends[c].seeds
      BY <2>1, <2>5, <3>1, <3>2 DEF PinInv, SentAsBuilt
    <3>4. QED
      BY <3>3, SeedsOfSpends
  <2>7. ASSUME across, NEW u \in ours PROVE u \in paid
    <3>1. \A t \in ours : IsSeed(t) /\ t.pin = <<GroupHash(SeedsOf(spends), root)>>
      BY <2>7, SeedsOfSpends DEF PinInv, OurSeeds
    <3>2. GroupHash(SeedsOf(spends), root) = GroupHash(all, root)
      BY <2>2, <3>1
    <3>3. Stripped(u) \in GroupHash(all, root)
      BY <3>2 DEF GroupHash
    <3>4. PICK t \in paid : Stripped(t) = Stripped(u)
      BY <3>3 DEF GroupHash
    <3>5. t = u
      BY <2>6, <3>1, <3>4, StrippedApart
    <3>6. QED
      BY <3>5
  <2>8. QED
    BY <2>5, <2>6, <2>7
<1>3. QED
  BY <1>1, <1>2, PinNext, PTL DEF PinsSpec

-----------------------------------------------------------------------------
(* Sums of gifts *)

LEMMA GiftsIsSum ==
  ASSUME NEW seeds, IsFiniteSet(seeds), \A s \in seeds : s.gift \in Nat
  PROVE  \E F : /\ IsSum(F, seeds, [s \in seeds |-> s.gift], Chosen(seeds))
                /\ Gifts(seeds) = F[seeds]
<1> DEFINE f == [s \in seeds |-> s.gift]
           iter[T \in SUBSET seeds] ==
             IF T = {} THEN 0 ELSE (CHOOSE x \in T : TRUE).gift + iter[T \ {CHOOSE x \in T : TRUE}]
<1>1. PICK F : IsSum(F, seeds, f, Chosen(seeds))
  BY SumExists, ChosenPicks
<1>2. \A T \in SUBSET seeds :
        T # {} => f[Chosen(seeds)[T]] = (CHOOSE x \in T : TRUE).gift
                    /\ Chosen(seeds)[T] = CHOOSE x \in T : TRUE
  BY DEF Chosen
<1>3. F = [T \in SUBSET seeds |->
             IF T = {} THEN 0 ELSE (CHOOSE x \in T : TRUE).gift + F[T \ {CHOOSE x \in T : TRUE}]]
  BY <1>1, <1>2 DEF IsSum
<1>4. iter = [T \in SUBSET seeds |->
                IF T = {} THEN 0
                ELSE (CHOOSE x \in T : TRUE).gift + iter[T \ {CHOOSE x \in T : TRUE}]]
  BY <1>3
<1>5. Gifts(seeds) = iter[seeds]
  BY DEF Gifts, MapThenSumSet, MapThenFoldSet
<1> HIDE DEF iter
<1>6. IsSum(iter, seeds, f, Chosen(seeds))
  <2> DEFINE sum == [T \in SUBSET seeds |->
                       IF T = {} THEN 0 ELSE f[Chosen(seeds)[T]] + iter[T \ {Chosen(seeds)[T]}]]
  <2> HIDE DEF f
  <2>1. ASSUME NEW T \in SUBSET seeds PROVE iter[T] = sum[T]
    <3>1. iter[T] = IF T = {} THEN 0
                    ELSE (CHOOSE x \in T : TRUE).gift + iter[T \ {CHOOSE x \in T : TRUE}]
      BY <1>4, Zenon
    <3>2. CASE T = {}
      BY <3>1, <3>2
    <3>3. CASE T # {}
      <4>1. PICK c : c = CHOOSE x \in T : TRUE
        OBVIOUS
      <4>2. f[Chosen(seeds)[T]] = c.gift /\ Chosen(seeds)[T] = c
        BY <1>2, <3>3, <4>1, Zenon
      <4>3. iter[T] = c.gift + iter[T \ {c}]
        BY <3>1, <3>3, <4>1, Zenon
      <4>4. QED  BY <3>3, <4>2, <4>3
    <3>4. QED  BY <3>2, <3>3
  <2>2. DOMAIN iter = SUBSET seeds /\ iter = [T \in DOMAIN iter |-> iter[T]]
    BY <1>4
  <2>3. iter = sum
    BY <2>1, <2>2
  <2>4. QED  BY <2>3 DEF IsSum
<1>7. QED
  BY <1>5, <1>6

LEMMA TotalIsSum ==
  ASSUME NEW lines, IsFiniteSet(DOMAIN lines), \A i \in DOMAIN lines : lines[i].amount \in Nat
  PROVE  \E F : /\ IsSum(F, DOMAIN lines, [i \in DOMAIN lines |-> lines[i].amount],
                         Chosen(DOMAIN lines))
                /\ Total(lines) = F[DOMAIN lines]
<1> DEFINE S == DOMAIN lines
           f == [i \in S |-> lines[i].amount]
           iter[T \in SUBSET S] ==
             IF T = {} THEN 0
             ELSE lines[CHOOSE x \in T : TRUE].amount + iter[T \ {CHOOSE x \in T : TRUE}]
<1>1. PICK F : IsSum(F, S, f, Chosen(S))
  BY SumExists, ChosenPicks
<1>2. \A T \in SUBSET S :
        T # {} => f[Chosen(S)[T]] = lines[CHOOSE x \in T : TRUE].amount
                    /\ Chosen(S)[T] = CHOOSE x \in T : TRUE
  BY DEF Chosen
<1>3. F = [T \in SUBSET S |->
             IF T = {} THEN 0
             ELSE lines[CHOOSE x \in T : TRUE].amount + F[T \ {CHOOSE x \in T : TRUE}]]
  <2>1. F = [T \in SUBSET S |->
               IF T = {} THEN 0 ELSE f[Chosen(S)[T]] + F[T \ {Chosen(S)[T]}]]
    BY <1>1 DEF IsSum
  <2> HIDE DEF f, S
  <2>2. QED  BY <1>2, <2>1
<1>4. iter = [T \in SUBSET S |->
                IF T = {} THEN 0
                ELSE lines[CHOOSE x \in T : TRUE].amount + iter[T \ {CHOOSE x \in T : TRUE}]]
  BY <1>3
<1>5. Total(lines) = iter[S]
  BY DEF Total, FoldFunction, FoldFunctionOnSet, MapThenFoldSet
<1> HIDE DEF iter
<1> HIDE DEF f, S
<1>6. IsSum(iter, S, f, Chosen(S))
  <2> DEFINE sum == [T \in SUBSET S |->
                       IF T = {} THEN 0 ELSE f[Chosen(S)[T]] + iter[T \ {Chosen(S)[T]}]]
  <2> HIDE DEF f
  <2>1. ASSUME NEW T \in SUBSET S PROVE iter[T] = sum[T]
    <3>1. iter[T] = IF T = {} THEN 0
                    ELSE lines[CHOOSE x \in T : TRUE].amount + iter[T \ {CHOOSE x \in T : TRUE}]
      BY <1>4, Zenon
    <3>2. CASE T = {}
      BY <3>1, <3>2
    <3>3. CASE T # {}
      <4>1. PICK c : c = CHOOSE x \in T : TRUE
        OBVIOUS
      <4>2. f[Chosen(S)[T]] = lines[c].amount /\ Chosen(S)[T] = c
        BY <1>2, <3>3, <4>1, Zenon
      <4>3. iter[T] = lines[c].amount + iter[T \ {c}]
        BY <3>1, <3>3, <4>1, Zenon
      <4>4. QED  BY <3>3, <4>2, <4>3
    <3>4. QED  BY <3>2, <3>3
  <2>2. DOMAIN iter = SUBSET S /\ iter = [T \in DOMAIN iter |-> iter[T]]
    BY <1>4
  <2>3. iter = sum
    BY <2>1, <2>2
  <2>4. QED  BY <2>3 DEF IsSum
<1>7. QED
  BY <1>5, <1>6 DEF f, S

\* Seeds that are one for each root, with gifts that can be summed.
SumsUp(seeds) ==
  /\ IsFiniteSet(seeds)
  /\ \A s \in seeds : IsSeed(s) /\ s.gift \in Nat
  /\ \A s, t \in seeds : s.root = t.root => s = t

\* A one-to-one map from a finite set gives a finite one.
LEMMA ImageFinite ==
  ASSUME NEW S, IsFiniteSet(S), NEW U, NEW h \in [S -> U], \A u \in U : \E x \in S : u = h[x]
  PROVE  IsFiniteSet(U)
<1>1. h \in Surjection(S, U)
  BY DEF Surjection
<1>2. QED
  BY <1>1, FS_Surjection

\* Pins leave the sum of the gifts.
LEMMA PinnedSumsUp ==
  ASSUME NEW seeds, SumsUp(seeds), NEW all
  PROVE  SumsUp(PinGroups(seeds, all)) /\ Gifts(PinGroups(seeds, all)) = Gifts(seeds)
<1> DEFINE U == PinGroups(seeds, all)
           h == [s \in seeds |-> [s EXCEPT !.pin = <<GroupHash(all, s.root)>>]]
           f == [s \in seeds |-> s.gift]
           g == [s \in U |-> s.gift]
<1>1. \A s \in seeds : /\ h[s] \in U /\ IsSeed(h[s])
                       /\ h[s].root = s.root /\ h[s].gift = s.gift
  <2> SUFFICES ASSUME NEW s \in seeds
               PROVE  /\ h[s] \in U /\ IsSeed(h[s])
                      /\ h[s].root = s.root /\ h[s].gift = s.gift
    OBVIOUS
  <2>1. h[s] = [s EXCEPT !.pin = <<GroupHash(all, s.root)>>] /\ IsSeed(s)
    BY DEF SumsUp
  <2>2. h[s] = [root |-> s.root, gift |-> s.gift, parent |-> s.parent,
                pin |-> <<GroupHash(all, s.root)>>]
    BY <2>1, PinOnly
  <2>3. h[s] \in U
    BY <2>1 DEF PinGroups
  <2>4. QED
    BY <2>2, <2>3 DEF IsSeed
<1>2. \A u \in U : \E s \in seeds : u = h[s]
  BY DEF PinGroups
<1>3. h \in [seeds -> U]
  <2>1. h = [s \in seeds |-> h[s]]
    OBVIOUS
  <2> HIDE DEF h, U
  <2>2. QED
    BY <1>1, <2>1
<1> HIDE DEF h
<1>4. IsFiniteSet(U)
  <2> HIDE DEF U
  <2>1. QED
    BY <1>2, <1>3, ImageFinite DEF SumsUp
<1> HIDE DEF U
<1>5. SumsUp(U)
  BY <1>1, <1>2, <1>4 DEF SumsUp
<1>6. f \in [seeds -> Nat] /\ g \in [U -> Nat] /\ \A s \in seeds : f[s] = g[h[s]]
  BY <1>1, <1>5 DEF SumsUp
<1>7. PICK F : IsSum(F, seeds, f, Chosen(seeds)) /\ Gifts(seeds) = F[seeds]
  BY GiftsIsSum DEF SumsUp
<1>8. PICK G : IsSum(G, U, g, Chosen(U)) /\ Gifts(U) = G[U]
  BY <1>5, GiftsIsSum DEF SumsUp
<1>9. \A s, t \in seeds : h[s] = h[t] => s = t
  BY <1>1 DEF SumsUp
<1>10. Picks(seeds, Chosen(seeds)) /\ Picks(U, Chosen(U)) /\ IsFiniteSet(seeds)
  BY ChosenPicks DEF SumsUp
<1> HIDE DEF f, g
<1>11. F[seeds] = G[U]
  BY <1>2, <1>3, <1>4, <1>6, <1>7, <1>8, <1>9, <1>10, SumsEqual
<1>12. QED
  BY <1>5, <1>7, <1>8, <1>11 DEF U

\* The seeds U are those that h makes of the places S, each with another root, and with
\* what f has at the place for gift.
MadeOf(U, h, S, f) ==
  /\ h \in [S -> U] /\ \A u \in U : \E i \in S : u = h[i]
  /\ f \in [S -> Nat]
  /\ \A i \in S : IsSeed(h[i]) /\ h[i].gift = f[i]
  /\ \A i, j \in S : h[i].root = h[j].root => i = j

\* Then they have the sum of what is at the places.
LEMMA PlacesSumUp ==
  ASSUME NEW S, IsFiniteSet(S), NEW f, NEW F, IsSum(F, S, f, Chosen(S)),
         NEW U, NEW h, MadeOf(U, h, S, f)
  PROVE  SumsUp(U) /\ Gifts(U) = F[S]
<1>0. /\ h \in [S -> U] /\ \A u \in U : \E i \in S : u = h[i]
      /\ f \in [S -> Nat]
      /\ \A i \in S : IsSeed(h[i]) /\ h[i].gift = f[i]
      /\ \A i, j \in S : h[i].root = h[j].root => i = j
  BY DEF MadeOf
<1> DEFINE g == [s \in U |-> s.gift]
<1>1. IsFiniteSet(U)
  BY <1>0, ImageFinite
<1>2. \A s \in U : IsSeed(s) /\ s.gift \in Nat
  BY <1>0
<1>3. SumsUp(U)
  <2>1. ASSUME NEW s \in U, NEW t \in U, s.root = t.root PROVE s = t
    <3>1. PICK i \in S : s = h[i]
      BY <1>0
    <3>2. PICK j \in S : t = h[j]
      BY <1>0
    <3>3. QED
      BY <1>0, <2>1, <3>1, <3>2
  <2>2. QED
    BY <1>1, <1>2, <2>1 DEF SumsUp
<1>4. g \in [U -> Nat] /\ \A i \in S : f[i] = g[h[i]]
  BY <1>0, <1>2
<1>5. PICK G : IsSum(G, U, g, Chosen(U)) /\ Gifts(U) = G[U]
  BY <1>1, <1>2, GiftsIsSum
<1>6. Picks(S, Chosen(S)) /\ Picks(U, Chosen(U))
  BY ChosenPicks
<1>7. \A i, j \in S : h[i] = h[j] => i = j
  BY <1>0
<1> HIDE DEF g
<1>8. F[S] = G[U]
  BY <1>0, <1>1, <1>4, <1>5, <1>6, <1>7, SumsEqual
<1>9. QED
  BY <1>3, <1>5, <1>8

-----------------------------------------------------------------------------
(* What we send *)

\* Each spend of ours moves what its coin holds, to each root once.
Balanced ==
  \A c \in DOMAIN spends :
    /\ SumsUp(spends[c].seeds)
    /\ Gifts(spends[c].seeds) + spends[c].fee = Worth[c]

\* While no two spends pay one root, a pin is of the spend's own seeds, also one given
\* over all of them.
PinnedApart ==
  RootsApart =>
    \A c \in DOMAIN spends : \A s \in spends[c].seeds :
      s.pin = <<GroupHash(spends[c].seeds, s.root)>>

\* What we sent is what we have built.
OursAsBuilt ==
  verdict.sender = "us" => verdict.tx = spends /\ verdict.lands = Lands(spends)

PayInv == PinInv /\ Balanced /\ PinnedApart /\ OursAsBuilt

\* The group of a root, in seeds that are alike but for their pins.
LEMMA GroupOfPinned ==
  ASSUME NEW seeds, \A s \in seeds : IsSeed(s), NEW all, NEW root
  PROVE  GroupHash(PinGroups(seeds, all), root) = GroupHash(seeds, root)
<1> DEFINE pinned(s) == [s EXCEPT !.pin = <<GroupHash(all, s.root)>>]
           U == PinGroups(seeds, all)
<1>1. U = { pinned(s) : s \in seeds }
  BY DEF PinGroups
<1>2. \A s \in seeds : pinned(s).root = s.root /\ Stripped(pinned(s)) = Stripped(s)
  BY PinnedKeeps
<1> HIDE DEF pinned, U
<1>3. ASSUME NEW x \in GroupHash(seeds, root) PROVE x \in GroupHash(U, root)
  <2>1. PICK s \in seeds : s.root = root /\ x = Stripped(s)
    BY <1>3 DEF GroupHash
  <2>2. pinned(s) \in U /\ pinned(s).root = root /\ x = Stripped(pinned(s))
    BY <1>1, <1>2, <2>1
  <2>3. QED
    BY <2>2 DEF GroupHash
<1>4. ASSUME NEW x \in GroupHash(U, root) PROVE x \in GroupHash(seeds, root)
  <2>1. PICK u \in U : u.root = root /\ x = Stripped(u)
    BY <1>4 DEF GroupHash
  <2>2. PICK s \in seeds : u = pinned(s)
    BY <1>1, <2>1
  <2>3. s.root = root /\ x = Stripped(s)
    BY <1>2, <2>1, <2>2
  <2>4. QED
    BY <2>3 DEF GroupHash
<1>5. QED
  BY <1>3, <1>4 DEF U

\* While no two spends pay one root, the group of a root that a spend pays is in it.
LEMMA GroupApart ==
  ASSUME OurSeeds, RootsApart, NEW c \in DOMAIN spends, NEW s \in spends[c].seeds
  PROVE  GroupHash(SeedsOf(spends), s.root) = GroupHash(spends[c].seeds, s.root)
<1>1. \A t \in SeedsOf(spends) : t.root = s.root => t \in spends[c].seeds
  <2> SUFFICES ASSUME NEW t \in SeedsOf(spends), t.root = s.root
               PROVE  t \in spends[c].seeds
    OBVIOUS
  <2>1. s \in SeedsOf(spends)
    BY SeedsOfSpends
  <2>2. PICK d \in DOMAIN spends : t \in spends[d].seeds
    BY SeedsOfSpends
  <2>3. t.parent = s.parent
    BY <2>1 DEF RootsApart
  <2>4. d = c
    BY <2>2, <2>3 DEF OurSeeds
  <2>5. QED
    BY <2>2, <2>4
<1>2. \A t \in spends[c].seeds : t \in SeedsOf(spends)
  BY SeedsOfSpends
<1>3. QED
  BY <1>1, <1>2 DEF GroupHash

LEMMA BuildPays ==
  ASSUME PayInv, NEW coin \in OurCoins, NEW n \in Nat, NEW fee \in Nat,
         NEW lines \in [1..n -> [root : LockRoots, amount : 0..Worth[coin]]],
         BuildCaptureSeeds(coin, lines, fee)
  PROVE  PayInv'
<1> DEFINE seeds == { Seed(lines[i].root, lines[i].amount, coin, <<>>) : i \in DOMAIN lines }
           mine == PinGroups(seeds, seeds)
<1>1. /\ verdict = Nobody /\ verdict' = verdict
      /\ coin \notin DOMAIN spends
      /\ spends' = [c \in DOMAIN spends \cup {coin} |->
           IF c = coin THEN [seeds |-> mine, fee |-> fee, signed |-> <<>>] ELSE spends[c]]
      /\ Total(lines) + fee = Worth[coin]
      /\ \A i, j \in DOMAIN lines : lines[i].root = lines[j].root => i = j
  BY DEF BuildCaptureSeeds, LinesRefused
<1>2. PinInv'
  BY BuildKeeps DEF PayInv
<1>3. SumsUp(seeds) /\ Gifts(seeds) = Total(lines)
  <2>1. Worth[coin] \in Nat
    BY PinsAssumption
  <2>2. DOMAIN lines = 1..n /\ \A i \in 1..n : lines[i].amount \in Nat
    BY <2>1
  <2>3. IsFiniteSet(1..n)
    BY FS_Interval
  <2>4. PICK S, f, F : /\ S = 1..n /\ f = [i \in S |-> lines[i].amount]
                       /\ IsSum(F, S, f, Chosen(S)) /\ Total(lines) = F[S]
    BY <2>2, <2>3, TotalIsSum
  <2> DEFINE h == [i \in S |-> Seed(lines[i].root, lines[i].amount, coin, <<>>)]
  <2>5. MadeOf(seeds, h, S, f)
    BY <1>1, <2>2, <2>4 DEF MadeOf, Seed, IsSeed
  <2> HIDE DEF seeds, h, mine
  <2>6. IsFiniteSet(S) /\ IsSum(F, S, f, Chosen(S))
    BY <2>3, <2>4
  <2>7. SumsUp(seeds) /\ Gifts(seeds) = F[S]
    BY <2>5, <2>6, PlacesSumUp
  <2>8. QED
    BY <2>4, <2>7
<1>4. \A s \in seeds : IsSeed(s) /\ s.parent = coin
  BY DEF Seed, IsSeed
<1> HIDE DEF seeds
<1>5. SumsUp(mine) /\ Gifts(mine) = Gifts(seeds)
  BY <1>3, PinnedSumsUp
<1>6. \A s \in mine : s.pin = <<GroupHash(mine, s.root)>>
  <2> SUFFICES ASSUME NEW s \in mine PROVE s.pin = <<GroupHash(mine, s.root)>>
    OBVIOUS
  <2>1. PICK t \in seeds : s = [t EXCEPT !.pin = <<GroupHash(seeds, t.root)>>]
    BY DEF PinGroups
  <2>2. s.root = t.root /\ s.pin = <<GroupHash(seeds, t.root)>>
    BY <1>4, <2>1, PinnedKeeps
  <2>3. GroupHash(mine, t.root) = GroupHash(seeds, t.root)
    BY <1>4, GroupOfPinned
  <2>4. QED
    BY <2>2, <2>3
<1> HIDE DEF mine
<1>7. /\ coin \in DOMAIN spends' /\ spends'[coin].seeds = mine /\ spends'[coin].fee = fee
      /\ \A c \in DOMAIN spends : c \in DOMAIN spends' /\ spends'[c] = spends[c]
      /\ \A c \in DOMAIN spends' : c = coin \/ c \in DOMAIN spends
  BY <1>1
<1>8. Balanced'
  <2> SUFFICES ASSUME NEW c \in DOMAIN spends'
               PROVE  /\ SumsUp(spends'[c].seeds)
                      /\ Gifts(spends'[c].seeds) + spends'[c].fee = Worth[c]
    BY DEF Balanced
  <2>1. CASE c = coin
    BY <1>1, <1>3, <1>5, <1>7, <2>1
  <2>2. CASE c # coin
    BY <1>7, <2>2 DEF PayInv, Balanced
  <2>3. QED
    BY <2>1, <2>2
<1>9. PinnedApart'
  <2> SUFFICES ASSUME RootsApart', NEW c \in DOMAIN spends', NEW s \in spends'[c].seeds
               PROVE  s.pin = <<GroupHash(spends'[c].seeds, s.root)>>
    BY DEF PinnedApart
  <2>1. CASE c = coin
    BY <1>6, <1>7, <2>1
  <2>2. CASE c # coin
    <3>1. \A t \in SeedsOf(spends) : t \in SeedsOf(spends')
      BY <1>7, SeedsOfSpends
    <3>2. RootsApart
      BY <3>1 DEF RootsApart
    <3>3. QED
      BY <1>7, <2>2, <3>2 DEF PayInv, PinnedApart
  <2>3. QED
    BY <2>1, <2>2
<1>10. OursAsBuilt'
  BY <1>1 DEF OursAsBuilt, Nobody
<1>11. QED
  BY <1>2, <1>8, <1>9, <1>10 DEF PayInv

LEMMA AcrossPays ==
  ASSUME PayInv, PinAcross
  PROVE  PayInv'
<1> DEFINE all == SeedsOf(spends)
<1>1. /\ verdict = Nobody /\ verdict' = verdict
      /\ spends' = [c \in DOMAIN spends |-> [spends[c] EXCEPT !.seeds = PinGroups(spends[c].seeds, all)]]
  BY DEF PinAcross
<1>2. PinInv' /\ OurSeeds
  BY AcrossKeeps DEF PayInv, PinInv
<1>3. /\ DOMAIN spends' = DOMAIN spends
      /\ \A c \in DOMAIN spends : /\ spends'[c].seeds = PinGroups(spends[c].seeds, all)
                                  /\ spends'[c].fee = spends[c].fee
  BY <1>1, <1>2 DEF OurSeeds, IsSpend
<1> HIDE DEF all
<1>4. Balanced'
  BY <1>3, PinnedSumsUp DEF PayInv, Balanced
<1>5. ASSUME NEW c \in DOMAIN spends, NEW s \in spends'[c].seeds
      PROVE  \E t \in spends[c].seeds : /\ s.root = t.root /\ s.parent = t.parent
                                        /\ s.pin = <<GroupHash(all, t.root)>>
  <2>1. PICK t \in spends[c].seeds : s = [t EXCEPT !.pin = <<GroupHash(all, t.root)>>]
    BY <1>3, <1>5 DEF PinGroups
  <2>2. QED
    BY <1>2, <2>1, PinnedKeeps DEF OurSeeds
<1>6. PinnedApart'
  <2> SUFFICES ASSUME RootsApart', NEW c \in DOMAIN spends, NEW s \in spends'[c].seeds
               PROVE  s.pin = <<GroupHash(spends'[c].seeds, s.root)>>
    BY <1>3 DEF PinnedApart
  <2>1. RootsApart
    <3> SUFFICES ASSUME NEW t \in SeedsOf(spends), NEW u \in SeedsOf(spends), t.root = u.root
                 PROVE  t.parent = u.parent
      BY DEF RootsApart
    <3>1. \A t1 \in SeedsOf(spends) :
            \E t2 \in SeedsOf(spends') : t2.root = t1.root /\ t2.parent = t1.parent
      <4> SUFFICES ASSUME NEW t1 \in SeedsOf(spends)
                   PROVE  \E t2 \in SeedsOf(spends') : t2.root = t1.root /\ t2.parent = t1.parent
        OBVIOUS
      <4>1. PICK d \in DOMAIN spends : t1 \in spends[d].seeds
        BY SeedsOfSpends
      <4> DEFINE t2 == [t1 EXCEPT !.pin = <<GroupHash(all, t1.root)>>]
      <4>2. t2 \in spends'[d].seeds
        BY <1>3, <4>1 DEF PinGroups
      <4>3. t2.root = t1.root /\ t2.parent = t1.parent
        BY <1>2, <4>1, PinnedKeeps DEF OurSeeds
      <4> HIDE DEF t2
      <4>4. t2 \in SeedsOf(spends')
        BY <1>3, <4>2, SeedsOfSpends
      <4>5. QED
        BY <4>3, <4>4
    <3>2. QED
      BY <3>1 DEF RootsApart
  <2>2. PICK t \in spends[c].seeds : s.root = t.root /\ s.pin = <<GroupHash(all, t.root)>>
    BY <1>5
  <2>3. GroupHash(all, t.root) = GroupHash(spends[c].seeds, t.root)
    BY <1>2, <2>1, GroupApart DEF all
  <2>4. GroupHash(spends'[c].seeds, t.root) = GroupHash(spends[c].seeds, t.root)
    BY <1>2, <1>3, GroupOfPinned DEF OurSeeds
  <2>5. QED
    BY <2>2, <2>3, <2>4
<1>7. OursAsBuilt'
  BY <1>1 DEF OursAsBuilt, Nobody
<1>8. QED
  BY <1>2, <1>4, <1>6, <1>7 DEF PayInv

LEMMA CosignPays ==
  ASSUME PayInv, NEW coin \in DOMAIN spends, Cosign(coin)
  PROVE  PayInv'
<1>1. /\ verdict = Nobody /\ verdict' = verdict
      /\ spends' = [spends EXCEPT ![coin].signed = SigHash(spends[coin])]
  BY DEF Cosign
<1>2. PinInv' /\ OurSeeds
  BY CosignKeeps DEF PayInv, PinInv
<1>3. /\ DOMAIN spends' = DOMAIN spends
      /\ \A c \in DOMAIN spends : /\ spends'[c].seeds = spends[c].seeds
                                  /\ spends'[c].fee = spends[c].fee
  BY <1>1
<1>4. SeedsOf(spends') = SeedsOf(spends)
  BY <1>3 DEF SeedsOf
<1>5. Balanced'
  BY <1>3 DEF PayInv, Balanced
<1>6. PinnedApart'
  BY <1>3, <1>4 DEF PayInv, PinnedApart, RootsApart
<1>7. OursAsBuilt'
  BY <1>1 DEF OursAsBuilt, Nobody
<1>8. QED
  BY <1>2, <1>5, <1>6, <1>7 DEF PayInv

LEMMA JudgedPays ==
  ASSUME PayInv, Send \/ Wrap
  PROVE  PayInv'
<1>1. spends' = spends
  BY DEF Send, Wrap, Judged
<1>2. OursAsBuilt'
  <2>1. CASE Send
    BY <2>1 DEF Send, Judged, OursAsBuilt
  <2>2. CASE Wrap
    <3>1. \E tx : Judged("stranger", tx)
      BY <2>2, Zenon DEF Wrap
    <3>2. verdict'.sender = "stranger"
      BY <3>1 DEF Judged
    <3>3. QED
      BY <3>2 DEF OursAsBuilt
  <2>3. QED
    BY <2>1, <2>2
<1>3. Balanced' /\ PinnedApart'
  BY <1>1 DEF PayInv, Balanced, PinnedApart, RootsApart
<1>4. QED
  BY <1>2, <1>3, JudgedKeeps DEF PayInv

\* For any coins, worths and payouts: what we build, pin and sign is what consensus takes.
THEOREM PaymentLandsCorrect == PinsSpec => []PaymentLands
<1>1. PinsInit => PayInv
  BY DEF PinsInit, PayInv, PinInv, OurSeeds, SentAsBuilt, Balanced, PinnedApart, OursAsBuilt, Nobody
<1>2. PayInv /\ [PinsNext]_pinVars => PayInv'
  <2> SUFFICES ASSUME PayInv, [PinsNext]_pinVars PROVE PayInv'
    OBVIOUS
  <2>1. CASE UNCHANGED pinVars
    BY <2>1, PinNext DEF pinVars, PayInv, Balanced, PinnedApart, RootsApart, OursAsBuilt
  <2>2. ASSUME NEW coin \in OurCoins, NEW n \in 0..MaxLines, NEW fee \in 0..MaxFee,
               NEW lines \in [1..n -> [root : LockRoots, amount : 0..Worth[coin]]],
               BuildCaptureSeeds(coin, lines, fee)
        PROVE  PayInv'
    BY <2>2, BuildPays, PinsAssumption
  <2>3. CASE PinsNext
    BY <2>2, <2>3, AcrossPays, CosignPays, JudgedPays, Zenon DEF PinsNext
  <2>4. QED
    BY <2>1, <2>3
<1>3. PayInv => PaymentLands
  <2> SUFFICES ASSUME PayInv, verdict.sender = "us",
                      \A c \in DOMAIN spends : spends[c].signed = SigHash(spends[c]),
                      across \/ RootsApart
               PROVE  Lands(spends)
    BY DEF PaymentLands, PayInv, OursAsBuilt
  <2>1. OurSeeds
    BY DEF PayInv, PinInv
  <2>2. ASSUME NEW c \in DOMAIN spends PROVE SpendValid(c, spends[c])
    BY <2>1 DEF SpendValid, OurSeeds, PayInv, Balanced
  <2>3. ASSUME NEW s \in SeedsOf(spends)
        PROVE  s.pin = <<GroupHash(SeedsOf(spends), s.root)>>
    <3>1. PICK c \in DOMAIN spends : s \in spends[c].seeds
      BY SeedsOfSpends
    <3>2. CASE across
      BY <2>1, <3>1, <3>2 DEF OurSeeds
    <3>3. CASE RootsApart
      BY <2>1, <3>1, <3>3, GroupApart DEF PayInv, PinnedApart
    <3>4. QED
      BY <3>2, <3>3
  <2>4. ASSUME NEW root \in DOMAIN Outputs(spends) PROVE OutputValid(Outputs(spends)[root])
    <3>1. Outputs(spends)[root] = [seeds |-> { s \in SeedsOf(spends) : s.root = root },
                                   source |-> GroupHash(SeedsOf(spends), root)]
      BY <2>4 DEF Outputs
    <3>2. QED
      BY <2>3, <3>1 DEF OutputValid
  <2>5. QED
    BY <2>2, <2>4 DEF Lands
<1>4. QED
  BY <1>1, <1>2, <1>3, PTL DEF PinsSpec

\* The type of the pinned payment: our spends are of our coins.
THEOREM PinsTypeCorrect == PinsSpec => []PinsTypeOK
<1> DEFINE Flags == /\ across \in BOOLEAN /\ verdict.lands \in BOOLEAN
                    /\ verdict.sender \in {"none", "us", "stranger"}
<1>1. PinsInit => Flags
  <2>1. Nobody.sender = "none" /\ Nobody.lands = FALSE
    BY DEF Nobody
  <2>2. QED
    BY <2>1, Zenon DEF PinsInit
<1>2. Flags /\ [PinsNext]_pinVars => Flags'
  <2> SUFFICES ASSUME Flags, [PinsNext]_pinVars PROVE Flags'
    OBVIOUS
  <2>1. CASE UNCHANGED pinVars
    BY <2>1, Zenon DEF pinVars
  <2>2. ASSUME verdict' = verdict, across' \in {TRUE, FALSE, across} PROVE Flags'
    BY <2>2, Zenon
  <2>3. ASSUME NEW sender \in {"us", "stranger"}, NEW tx, Judged(sender, tx) PROVE Flags'
    <3>1. across' = across /\ verdict' = [sender |-> sender, lands |-> Lands(tx), tx |-> tx]
      BY <2>3 DEF Judged
    <3>2. Lands(tx) \in BOOLEAN
      BY Zenon DEF Lands
    <3>3. verdict'.sender = sender /\ verdict'.lands = Lands(tx)
      BY <3>1
    <3>4. QED
      BY <3>1, <3>2, <3>3, Zenon
  <2>4. \/ \E coin \in OurCoins : \E lines, fee : BuildCaptureSeeds(coin, lines, fee)
        \/ \E coin \in DOMAIN spends : Cosign(coin)
        \/ PinAcross
        \/ \E sender \in {"us", "stranger"} : \E tx : Judged(sender, tx)
        \/ UNCHANGED pinVars
    BY Zenon DEF PinsNext, Send, Wrap
  <2>5. QED
    BY <2>1, <2>2, <2>3, <2>4, Zenon DEF BuildCaptureSeeds, Cosign, PinAcross
<1>3. PinInv /\ Flags => PinsTypeOK
  BY Zenon DEF PinInv, OurSeeds, PinsTypeOK
<1>4. PinsInit => PinInv
  BY DEF PinsInit, PinInv, OurSeeds, SentAsBuilt
<1> HIDE DEF Flags
<1>5. QED
  BY <1>1, <1>2, <1>3, <1>4, PinNext, PTL DEF PinsSpec

-----------------------------------------------------------------------------
(* The fee *)

\* SumOf is the sum over the whole domain.
LEMMA SumOfIs ==
  ASSUME NEW S, IsFiniteSet(S), NEW f \in [S -> Nat]
  PROVE  \E F : Sums(F, S, f) /\ SumOf(f) = F[S]
<1> DEFINE iter[T \in SUBSET S] ==
             IF T = {} THEN 0
             ELSE f[CHOOSE x \in T : TRUE] + iter[T \ {CHOOSE x \in T : TRUE}]
<1>1. PICK F : Sums(F, S, f) /\ IsSum(F, S, f, Chosen(S))
  BY SumsExist
<1>2. \A T \in SUBSET S : Chosen(S)[T] = CHOOSE x \in T : TRUE
  BY DEF Chosen
<1>3. F = [T \in SUBSET S |->
             IF T = {} THEN 0
             ELSE f[CHOOSE x \in T : TRUE] + F[T \ {CHOOSE x \in T : TRUE}]]
  BY <1>1, <1>2 DEF IsSum
<1>4. iter = [T \in SUBSET S |->
                IF T = {} THEN 0
                ELSE f[CHOOSE x \in T : TRUE] + iter[T \ {CHOOSE x \in T : TRUE}]]
  BY <1>3
<1>5. DOMAIN f = S
  OBVIOUS
<1>6. SumOf(f) = iter[S]
  BY <1>5 DEF SumOf, FoldFunction, FoldFunctionOnSet, MapThenFoldSet
<1> HIDE DEF iter
<1>7. IsSum(iter, S, f, Chosen(S))
  <2> DEFINE sum == [T \in SUBSET S |->
                       IF T = {} THEN 0 ELSE f[Chosen(S)[T]] + iter[T \ {Chosen(S)[T]}]]
  <2>1. iter = sum
    BY <1>2, <1>4
  <2>2. QED  BY <2>1 DEF IsSum
<1>8. Picks(S, Chosen(S))
  BY ChosenPicks
<1>9. Sums(iter, S, f)
  BY <1>7, <1>8 DEF Sums
<1>10. QED
  BY <1>6, <1>9

-----------------------------------------------------------------------------
(* The data of a seed, and of the seeds of one root *)

\* Data: finitely many keys, each with the leaves of its value.
IsData(d) == IsFiniteSet(DOMAIN d) /\ d \in [DOMAIN d -> Nat]

\* A key and its value.
EntryWords(d) == [key \in DOMAIN d |-> 1 + d[key]]

\* The words of data are one more than those of the entries.
LEMMA WordsOfData ==
  ASSUME NEW d, IsData(d)
  PROVE  /\ \E F : Sums(F, DOMAIN d, EntryWords(d)) /\ DataWords(d) = 1 + F[DOMAIN d]
         /\ DataWords(d) \in Nat
<1>1. IsFiniteSet(DOMAIN d) /\ \A key \in DOMAIN d : 1 + d[key] \in Nat
  <2>1. IsFiniteSet(DOMAIN d)
    BY DEF IsData
  <2>2. \A key \in DOMAIN d : d[key] \in Nat
    BY DEF IsData
  <2>3. QED  BY <2>1, <2>2
<1>2. EntryWords(d) \in [DOMAIN d -> Nat]
  BY <1>1 DEF EntryWords
<1>3. PICK F : Sums(F, DOMAIN d, EntryWords(d)) /\ SumOf(EntryWords(d)) = F[DOMAIN d]
  <2>1. PICK e \in [DOMAIN d -> Nat] : e = EntryWords(d)
    BY <1>2
  <2>2. \E F : Sums(F, DOMAIN d, e) /\ SumOf(e) = F[DOMAIN d]
    BY <1>1, SumOfIs
  <2>3. QED  BY <2>1, <2>2
<1>4. DataWords(d) = 1 + F[DOMAIN d]
  BY <1>3 DEF DataWords, EntryWords
<1>5. F[DOMAIN d] \in Nat
  BY <1>3, SumLaws
<1>6. QED
  BY <1>3, <1>4, <1>5

\* Seeds as a caller may want them, and the orders of them.
AreSeeds(seeds) ==
  /\ DOMAIN seeds = 1 .. Len(seeds) /\ Len(seeds) \in Nat
  /\ \A i \in DOMAIN seeds : IsData(seeds[i].data)
IsOrder(seeds, sorted) == sorted \in [DOMAIN seeds -> DOMAIN seeds] /\ IsInjective(sorted)

LEMMA WantedAreSeeds == \A seeds \in WantedSeeds : AreSeeds(seeds)
BY SpendsAssumption DEF AreSeeds, IsData

\* An order leaves no seed out.
LEMMA OrderFills ==
  ASSUME NEW seeds, AreSeeds(seeds), NEW sorted, IsOrder(seeds, sorted)
  PROVE  IsFiniteSet(DOMAIN seeds) /\ \A i \in DOMAIN seeds : \E k \in DOMAIN seeds : sorted[k] = i
<1> DEFINE D == DOMAIN seeds
<1>1. IsFiniteSet(D)
  BY FS_Interval DEF AreSeeds
<1>2. sorted \in Injection(D, D)
  BY DEF IsOrder, Injection, IsInjective
<1> HIDE DEF D
<1>3. sorted \in Surjection(D, D)
  BY <1>1, <1>2, FS_Injection
<1>4. QED
  BY <1>1, <1>3 DEF Surjection, D

\* A place with the largest number, of some.
LEMMA MaxIsIn ==
  ASSUME NEW n \in Nat, NEW T \in SUBSET (1 .. n), T # {}
  PROVE  Max(T) \in T
<1>1. PICK x \in T : \A y \in T : y <= x
  BY Greatest
<1>2. \A y \in T : x >= y
  BY <1>1
<1>3. QED
  BY <1>2 DEF Max

Roots(seeds) == {seeds[i].root : i \in DOMAIN seeds}
SeedsOn(seeds, root) == {i \in DOMAIN seeds : seeds[i].root = root}

\* group is merged of the data of the seeds of a root: each key has the value it has in
\* the data of one of them.
IsMerged(group, seeds, root) ==
  /\ IsData(group)
  /\ \A i \in SeedsOn(seeds, root) : DOMAIN seeds[i].data \subseteq DOMAIN group
  /\ \A key \in DOMAIN group : \E i \in SeedsOn(seeds, root) :
       key \in DOMAIN seeds[i].data /\ group[key] = seeds[i].data[key]

\* In whatever order.
LEMMA MergedIs ==
  ASSUME NEW seeds, AreSeeds(seeds), NEW sorted, IsOrder(seeds, sorted), NEW root \in Roots(seeds)
  PROVE  IsMerged(MergedBy(seeds, sorted)[root], seeds, root)
<1> DEFINE D == DOMAIN seeds
           P == PlacesOf(seeds, sorted, root)
           K == UNION {DOMAIN seeds[sorted[k]].data : k \in P}
           value(key) == seeds[sorted[Max(Holding(seeds, sorted, root, key))]].data[key]
           group == [key \in K |-> value(key)]
<1>1. MergedBy(seeds, sorted)[root] = group
  BY DEF MergedBy, Roots
<1>2. DOMAIN sorted = D /\ \A k \in D : sorted[k] \in D
  BY DEF IsOrder
<1>3. P = {k \in D : seeds[sorted[k]].root = root}
  BY <1>2 DEF PlacesOf
<1>4. ASSUME NEW key \in K
      PROVE  /\ \E i \in SeedsOn(seeds, root) :
                   key \in DOMAIN seeds[i].data /\ value(key) = seeds[i].data[key]
             /\ value(key) \in Nat
  <2> DEFINE H == Holding(seeds, sorted, root, key)
  <2>1. H = {k \in P : key \in DOMAIN seeds[sorted[k]].data}
    BY DEF Holding
  <2>2. H # {}
    BY <2>1
  <2>3. H \in SUBSET (1 .. Len(seeds)) /\ Len(seeds) \in Nat
    BY <1>3, <2>1 DEF AreSeeds
  <2> HIDE DEF H, K, P
  <2>4. Max(H) \in H
    BY <2>2, <2>3, MaxIsIn
  <2>5. PICK i : i = sorted[Max(H)]
    OBVIOUS
  <2>6. i \in SeedsOn(seeds, root) /\ key \in DOMAIN seeds[i].data
    BY <1>2, <1>3, <2>1, <2>4, <2>5 DEF SeedsOn
  <2>7. value(key) = seeds[i].data[key]
    BY <2>5 DEF H
  <2>8. seeds[i].data[key] \in Nat
    BY <2>6 DEF AreSeeds, IsData, SeedsOn
  <2>9. QED
    BY <2>6, <2>7, <2>8
<1>5. IsFiniteSet(K)
  <2> DEFINE sets == {DOMAIN seeds[sorted[k]].data : k \in P}
  <2>1. IsFiniteSet(P)
    <3>1. P \in SUBSET D
      BY <1>3
    <3> HIDE DEF P, D
    <3>2. QED  BY <3>1, OrderFills, FS_Subset DEF D
  <2>2. IsFiniteSet(sets)
    <3> DEFINE take == [k \in P |-> DOMAIN seeds[sorted[k]].data]
    <3>1. take \in Surjection(P, sets)
      BY DEF Surjection
    <3> HIDE DEF take, sets, P
    <3>2. QED  BY <2>1, <3>1, FS_Surjection
  <2>3. \A T \in sets : IsFiniteSet(T)
    BY <1>2, <1>3 DEF AreSeeds, IsData
  <2> HIDE DEF sets
  <2>4. IsFiniteSet(UNION sets)
    BY <2>2, <2>3, FS_UNION
  <2>5. QED  BY <2>4 DEF sets
<1>6. ASSUME NEW i \in SeedsOn(seeds, root) PROVE DOMAIN seeds[i].data \subseteq K
  <2>1. PICK k \in D : sorted[k] = i
    BY OrderFills DEF SeedsOn
  <2>2. k \in P
    BY <1>3, <2>1 DEF SeedsOn
  <2>3. QED  BY <2>1, <2>2
<1> HIDE DEF K
<1>7. DOMAIN group = K /\ \A key \in K : group[key] = value(key)
  OBVIOUS
<1>8. group \in [DOMAIN group -> Nat]
  BY <1>4, <1>7
<1> HIDE DEF group
<1>9. IsData(group)
  BY <1>5, <1>7, <1>8 DEF IsData
<1>10. QED
  BY <1>1, <1>4, <1>6, <1>7, <1>9 DEF IsMerged

\* Without a collision it is the same in each order.
LEMMA MergedAlike ==
  ASSUME NEW seeds, ~Collides(seeds), NEW root, NEW g, IsMerged(g, seeds, root),
         NEW h, IsMerged(h, seeds, root)
  PROVE  g = h
<1>1. \A i, j \in SeedsOn(seeds, root) : \A key :
        key \in DOMAIN seeds[i].data /\ key \in DOMAIN seeds[j].data => i = j
  BY DEF Collides, SeedsOn
<1>2. DOMAIN g = DOMAIN h
  BY DEF IsMerged
<1>3. ASSUME NEW key \in DOMAIN g PROVE g[key] = h[key]
  <2>1. PICK i \in SeedsOn(seeds, root) : key \in DOMAIN seeds[i].data /\ g[key] = seeds[i].data[key]
    BY DEF IsMerged
  <2>2. PICK j \in SeedsOn(seeds, root) : key \in DOMAIN seeds[j].data /\ h[key] = seeds[j].data[key]
    BY <1>2 DEF IsMerged
  <2>3. i = j
    BY <1>1, <2>1, <2>2
  <2>4. QED  BY <2>1, <2>2, <2>3
<1>4. g \in [DOMAIN g -> Nat] /\ h \in [DOMAIN g -> Nat]
  BY <1>2 DEF IsMerged, IsData
<1>5. QED
  BY <1>3, <1>4

\* So the words are the same.
LEMMA MergedWordsAlike ==
  ASSUME NEW seeds, AreSeeds(seeds), ~Collides(seeds),
         NEW sorted, IsOrder(seeds, sorted), NEW other, IsOrder(seeds, other)
  PROVE  MergedWords(seeds, sorted) = MergedWords(seeds, other)
<1>1. ASSUME NEW o, IsOrder(seeds, o)
      PROVE  /\ DOMAIN MergedBy(seeds, o) = Roots(seeds)
             /\ MergedBy(seeds, o) = [root \in Roots(seeds) |-> MergedBy(seeds, o)[root]]
  BY DEF MergedBy, Roots
<1>2. ASSUME NEW root \in Roots(seeds)
      PROVE  MergedBy(seeds, sorted)[root] = MergedBy(seeds, other)[root]
  <2>1. PICK g, h : g = MergedBy(seeds, sorted)[root] /\ h = MergedBy(seeds, other)[root]
    OBVIOUS
  <2>2. IsMerged(g, seeds, root) /\ IsMerged(h, seeds, root)
    BY <2>1, MergedIs
  <2>3. g = h
    BY <2>2, MergedAlike
  <2>4. QED  BY <2>1, <2>3
<1>3. MergedBy(seeds, sorted) = MergedBy(seeds, other)
  BY <1>1, <1>2
<1>4. QED
  BY <1>3 DEF MergedWords

\* What the data of one root cost merged is no more than what they cost apart.
LEMMA RootWords ==
  ASSUME NEW seeds, AreSeeds(seeds), NEW root \in Roots(seeds),
         NEW group, IsMerged(group, seeds, root),
         NEW F, Sums(F, DOMAIN seeds, [i \in DOMAIN seeds |-> DataWords(seeds[i].data)])
  PROVE  DataWords(group) <= F[SeedsOn(seeds, root)]
<1> DEFINE S == SeedsOn(seeds, root)
           K == DOMAIN group
           f == [i \in DOMAIN seeds |-> DataWords(seeds[i].data)]
           c == [key \in K |-> CHOOSE i \in S : /\ key \in DOMAIN seeds[i].data
                                                /\ group[key] = seeds[i].data[key]]
<1>1. \A key \in K : /\ c[key] \in S /\ key \in DOMAIN seeds[c[key]].data
                     /\ group[key] = seeds[c[key]].data[key]
  BY DEF IsMerged
<1>2. c \in [K -> S]
  BY <1>1
<1>3. PICK H : Sums(H, K, EntryWords(group)) /\ DataWords(group) = 1 + H[K]
  BY WordsOfData DEF IsMerged
<1>4. S \in SUBSET DOMAIN seeds /\ IsFiniteSet(S)
  <2>1. S \in SUBSET DOMAIN seeds
    BY DEF SeedsOn
  <2>2. IsFiniteSet(DOMAIN seeds)
    BY SumLaws
  <2> HIDE DEF S
  <2>3. QED  BY <2>1, <2>2, FS_Subset
<1> HIDE DEF c, S, K
<1>5. \A T : Fiber(K, c, T) \in SUBSET K
  BY DEF Fiber
<1> DEFINE p == [i \in S |-> H[Fiber(K, c, {i})]]
<1>6. p \in [S -> Nat]
  BY <1>3, <1>5, SumLaws
<1>7. PICK G : Sums(G, S, p)
  <2> HIDE DEF p
  <2>1. QED  BY <1>4, <1>6, SumsExist
<1>8. H[K] = G[S]
  <2>1. SumsParts(p, H, K, c, S)
    BY DEF SumsParts
  <2> HIDE DEF p
  <2>2. QED  BY <1>2, <1>3, <1>7, <2>1, SumOfFibers
<1>9. ASSUME NEW i \in S PROVE p[i] + 1 <= f[i]
  <2> DEFINE d == seeds[i].data
             A == Fiber(K, c, {i})
  <2>1. IsData(d)
    BY <1>4 DEF AreSeeds
  <2>2. PICK E : Sums(E, DOMAIN d, EntryWords(d)) /\ DataWords(d) = 1 + E[DOMAIN d]
    <3> HIDE DEF d
    <3>1. QED  BY <2>1, WordsOfData
  <2>3. A \subseteq K /\ A \subseteq DOMAIN d
    BY <1>1 DEF Fiber
  <2>4. \A key \in A : EntryWords(group)[key] <= EntryWords(d)[key]
    <3>1. \A key \in A : group[key] = d[key] /\ d[key] \in Nat
      BY <1>1, <2>1, <2>3 DEF Fiber, IsData
    <3> HIDE DEF A, d
    <3>2. \A key \in A : EntryWords(group)[key] = 1 + d[key] /\ EntryWords(d)[key] = 1 + d[key]
      BY <2>3, <3>1 DEF EntryWords, K
    <3>3. QED  BY <3>1, <3>2
  <2>5. p[i] = H[A] /\ f[i] = DataWords(d)
    BY <1>4
  <2> HIDE DEF A, d, p, f
  <2>6. H[A] <= E[A]
    BY <1>3, <2>2, <2>3, <2>4, SumBelow
  <2>7. E[A] <= E[DOMAIN d]
    BY <2>2, <2>3, SumGrows
  <2>8. H[A] \in Nat /\ E[A] \in Nat /\ E[DOMAIN d] \in Nat
    BY <1>3, <2>2, <2>3, SumLaws
  <2>9. QED
    BY <2>2, <2>5, <2>6, <2>7, <2>8
<1>10. PICK i \in S : TRUE
  BY DEF S, SeedsOn, Roots
<1> HIDE DEF p, f
<1>11. Sums(F, DOMAIN seeds, f)
  BY DEF f
<1> DEFINE T == S \ {i}
<1>12. G[S] = p[i] + G[T] /\ p[i] \in Nat /\ G[T] \in Nat
  <2>1. PICK V \in SUBSET S : V = S
    OBVIOUS
  <2>2. PICK x \in V : x = i
    BY <2>1
  <2>3. G[V] = p[x] + G[V \ {x}] /\ p[x] \in Nat /\ G[V \ {x}] \in Nat
    BY ONLY <1>7, SumStep
  <2>4. QED  BY <2>1, <2>2, <2>3
<1>13. F[S] = f[i] + F[T] /\ f[i] \in Nat /\ F[T] \in Nat
  BY <1>4, <1>11, SumStep
<1>14. G[T] <= F[T]
  <2>1. \A x \in T : p[x] <= f[x]
    <3>1. TAKE x \in T
    <3>2. p[x] + 1 <= f[x]
      BY <1>9
    <3>3. p[x] \in Nat
      BY <1>6
    <3>4. f[x] \in Nat
      <4>1. PICK e \in [DOMAIN seeds -> Nat] : e = f
        BY <1>11, SumLaws
      <4>2. QED  BY <1>4, <4>1
    <3>5. QED  BY <3>2, <3>3, <3>4
  <2>2. T \subseteq S /\ T \subseteq DOMAIN seeds
    BY <1>4
  <2> HIDE DEF T
  <2>3. QED  BY <1>7, <1>11, <2>1, <2>2, SumBelow
<1>15. p[i] + 1 <= f[i]
  BY <1>9
<1> HIDE DEF T
<1>16. QED
  BY <1>3, <1>8, <1>12, <1>13, <1>14, <1>15 DEF S

\* Merged in any order, all the data cost no more than apart.
LEMMA MergedIsLess ==
  ASSUME NEW seeds, AreSeeds(seeds), NEW sorted, IsOrder(seeds, sorted)
  PROVE  /\ LegacyWords(seeds) \in Nat /\ MergedWords(seeds, sorted) \in Nat
         /\ MergedWords(seeds, sorted) <= LegacyWords(seeds)
<1> DEFINE D == DOMAIN seeds
           R == Roots(seeds)
           f == [i \in D |-> DataWords(seeds[i].data)]
           groups == MergedBy(seeds, sorted)
           g == [root \in R |-> DataWords(groups[root])]
           c == [i \in D |-> seeds[i].root]
<1>1. IsFiniteSet(D)
  BY OrderFills
<1>2. f \in [D -> Nat]
  BY WordsOfData DEF AreSeeds
<1>3. PICK F : Sums(F, D, f) /\ LegacyWords(seeds) = F[D]
  <2>1. LegacyWords(seeds) = SumOf(f)
    BY DEF LegacyWords
  <2> HIDE DEF f, D
  <2>2. QED  BY <1>1, <1>2, <2>1, SumOfIs
<1>4. c \in [D -> R] /\ IsFiniteSet(R)
  <2>1. c \in [D -> R]
    BY DEF Roots
  <2>2. c \in Surjection(D, R)
    BY <2>1 DEF Surjection, Roots
  <2> HIDE DEF c, D, R
  <2>3. QED  BY <1>1, <2>1, <2>2, FS_Surjection
<1>5. \A root \in R : IsMerged(groups[root], seeds, root)
  BY MergedIs
<1>6. g \in [R -> Nat]
  BY <1>5, WordsOfData DEF IsMerged
<1>7. PICK G : Sums(G, R, g) /\ MergedWords(seeds, sorted) = G[R]
  <2>1. DOMAIN groups = R
    BY DEF MergedBy, Roots
  <2>2. MergedWords(seeds, sorted) = SumOf(g)
    BY <2>1 DEF MergedWords
  <2> HIDE DEF g, R
  <2>3. QED  BY <1>4, <1>6, <2>2, SumOfIs
<1> HIDE DEF g, c, groups
<1>8. \A root \in R : Fiber(D, c, {root}) = SeedsOn(seeds, root)
  BY DEF Fiber, SeedsOn, c
<1> DEFINE p == [root \in R |-> F[Fiber(D, c, {root})]]
<1>9. p \in [R -> Nat]
  <2>1. \A root \in R : Fiber(D, c, {root}) \in SUBSET D
    BY DEF Fiber
  <2> HIDE DEF D, R, f
  <2>2. QED  BY <1>3, <2>1, SumLaws
<1>10. PICK Q : Sums(Q, R, p)
  <2> HIDE DEF p, R
  <2>1. QED  BY <1>4, <1>9, SumsExist
<1>11. F[D] = Q[R]
  <2>1. SumsParts(p, F, D, c, R)
    BY DEF SumsParts
  <2> HIDE DEF p, D, R, f
  <2>2. QED  BY <1>3, <1>4, <1>10, <2>1, SumOfFibers
<1>12. \A root \in R : g[root] <= p[root]
  <2>1. TAKE root \in R
  <2>2. g[root] = DataWords(groups[root])
    BY DEF g
  <2>3. p[root] = F[SeedsOn(seeds, root)]
    BY <1>8
  <2>4. DataWords(groups[root]) <= F[SeedsOn(seeds, root)]
    <3>1. PICK group : group = groups[root]
      OBVIOUS
    <3>2. IsMerged(group, seeds, root)
      BY <1>5, <3>1
    <3>3. Sums(F, DOMAIN seeds, [i \in DOMAIN seeds |-> DataWords(seeds[i].data)])
      BY <1>3
    <3>4. DataWords(group) <= F[SeedsOn(seeds, root)]
      BY <3>2, <3>3, RootWords
    <3>5. QED  BY <3>1, <3>4
  <2>5. QED  BY <2>2, <2>3, <2>4
<1>13. G[R] <= Q[R]
  <2> HIDE DEF p, R, D, f
  <2>1. QED  BY <1>7, <1>10, <1>12, SumBelow
<1>14. G[R] \in Nat /\ F[D] \in Nat
  <2> HIDE DEF R, D, f
  <2>1. QED  BY <1>3, <1>7, SumLaws
<1>15. QED
  BY <1>3, <1>7, <1>11, <1>13, <1>14

-----------------------------------------------------------------------------
(* Prices *)

LEMMA TimesGrows ==
  ASSUME NEW a \in Nat, NEW b \in Nat, NEW c \in Nat, NEW d \in Nat, a <= b, c <= d
  PROVE  a * c \in Nat /\ b * d \in Nat /\ a * c <= b * d
<1>1. PICK x \in Nat : b = a + x
  <2>1. b - a \in Nat /\ b = a + (b - a)
    OBVIOUS
  <2>2. QED  BY <2>1
<1>2. PICK y \in Nat : d = c + y
  <2>1. d - c \in Nat /\ d = c + (d - c)
    OBVIOUS
  <2>2. QED  BY <2>1
<1>3. b * d = a * c + a * y + x * c + x * y
  BY <1>1, <1>2
<1>4. a * c \in Nat /\ a * y \in Nat /\ x * c \in Nat /\ x * y \in Nat
  OBVIOUS
<1>5. QED
  BY <1>3, <1>4

LEMMA QuotientGrows ==
  ASSUME NEW a \in Nat, NEW b \in Nat, NEW n \in Nat \ {0}, a <= b
  PROVE  a \div n \in Nat /\ b \div n \in Nat /\ a \div n <= b \div n
<1>1. PICK q, s : q = a \div n /\ s = b \div n
  OBVIOUS
<1>2. q \in Nat /\ s \in Nat
  BY <1>1
<1>3. n * q <= a /\ b < n * (s + 1)
  BY <1>1
<1>4. n * q < n * (s + 1)
  BY <1>2, <1>3
<1>5. q <= s
  <2>1. SUFFICES ASSUME s + 1 <= q PROVE FALSE
    BY <1>2
  <2>2. n * (s + 1) <= n * q
    BY <1>2, <2>1, TimesGrows
  <2>3. QED  BY <1>2, <1>4, <2>2
<1>6. QED
  BY <1>1, <1>2, <1>5

LEMMA QuotientBelow ==
  ASSUME NEW a \in Nat, NEW n \in Nat \ {0}
  PROVE  a \div n <= a /\ a \div 1 = a
<1>1. PICK q : q = a \div n
  OBVIOUS
<1>2. q \in Nat
  BY <1>1
<1>3. n * q <= a
  BY <1>1
<1>4. 1 * q <= n * q /\ n * q \in Nat
  BY <1>2, TimesGrows
<1>5. q <= a
  BY <1>2, <1>3, <1>4
<1>6. QED
  BY <1>1, <1>5

\* The larger of two numbers.
LEMMA MaxOfTwo ==
  ASSUME NEW x \in Nat, NEW y \in Nat
  PROVE  Max({x, y}) = IF x >= y THEN x ELSE y
<1>1. Max({x, y}) \in {x, y} /\ \A z \in {x, y} : Max({x, y}) >= z
  <2>1. \E m \in {x, y} : \A z \in {x, y} : m >= z
    OBVIOUS
  <2>2. QED  BY <2>1 DEF Max
<1>2. QED
  BY <1>1

\* What is priced, before the least fee.
Rate(at) == IF at >= Bythos THEN BaseFee ELSE 2 * BaseFee
Priced(words, witness, at) ==
  words * Rate(at) + (witness * Rate(at)) \div (IF at >= Bythos THEN InputFeeDivisor ELSE 1)

LEMMA FeeByIs ==
  ASSUME NEW words \in Nat, NEW witness \in Nat, NEW at \in Nat
  PROVE  /\ Priced(words, witness, at) \in Nat
         /\ FeeBy(words, witness, at) = Max({Priced(words, witness, at), LeastFee})
<1>1. Rate(at) \in Nat
  BY SpendsAssumption DEF Rate
<1>2. PICK r \in Nat : r = Rate(at)
  BY <1>1
<1>3. PICK n \in Nat \ {0} : n = IF at >= Bythos THEN InputFeeDivisor ELSE 1
  BY SpendsAssumption
<1>4. words * r \in Nat /\ witness * r \in Nat
  OBVIOUS
<1>5. (witness * r) \div n \in Nat
  BY <1>4, QuotientGrows
<1>6. Priced(words, witness, at) = words * r + (witness * r) \div n
  BY <1>2, <1>3 DEF Priced
<1>7. QED
  BY <1>4, <1>5, <1>6 DEF FeeBy, Priced, Rate

\* More words cost no less, and from bythos on the same cost no more.
LEMMA FeeGrows ==
  ASSUME NEW words \in Nat, NEW witness \in Nat, NEW at \in Nat,
         NEW more \in Nat, NEW larger \in Nat, NEW before \in Nat,
         words <= more,
         \/ at >= Bythos /\ before >= Bythos /\ witness <= larger
         \/ at < Bythos /\ before < Bythos /\ witness <= larger
         \/ at >= Bythos /\ before < Bythos /\ witness <= 2 * larger
  PROVE  FeeBy(words, witness, at) <= FeeBy(more, larger, before)
<1> DEFINE p == Priced(words, witness, at)
           q == Priced(more, larger, before)
<1>1. BaseFee \in Nat /\ LeastFee \in Nat /\ Bythos \in Nat
  BY SpendsAssumption
<1>2. PICK d \in Nat \ {0} : d = InputFeeDivisor
  BY SpendsAssumption
<1>3. PICK b \in Nat : b = BaseFee
  BY <1>1
<1>4. p <= q
  <2>1. CASE at >= Bythos /\ before >= Bythos /\ witness <= larger
    <3>1. words * b \in Nat /\ more * b \in Nat /\ words * b <= more * b
      BY TimesGrows
    <3>2. witness * b \in Nat /\ larger * b \in Nat /\ witness * b <= larger * b
      BY <2>1, TimesGrows
    <3>3. /\ (witness * b) \div d \in Nat /\ (larger * b) \div d \in Nat
          /\ (witness * b) \div d <= (larger * b) \div d
      BY <3>2, QuotientGrows
    <3>4. p = words * b + (witness * b) \div d /\ q = more * b + (larger * b) \div d
      BY <1>2, <1>3, <2>1 DEF Priced, Rate
    <3> HIDE DEF p, q
    <3>5. QED  BY <3>1, <3>3, <3>4
  <2>2. CASE at < Bythos /\ before < Bythos /\ witness <= larger
    <3>1. PICK r \in Nat : r = 2 * b
      OBVIOUS
    <3>2. words * r \in Nat /\ more * r \in Nat /\ words * r <= more * r
      BY TimesGrows
    <3>3. witness * r \in Nat /\ larger * r \in Nat /\ witness * r <= larger * r
      BY <2>2, TimesGrows
    <3>4. (witness * r) \div 1 = witness * r /\ (larger * r) \div 1 = larger * r
      BY <3>3, QuotientBelow
    <3>5. Rate(at) = r /\ Rate(before) = r /\ ~(at >= Bythos) /\ ~(before >= Bythos)
      BY <1>1, <1>3, <2>2, <3>1 DEF Rate
    <3>6. p = words * r + witness * r /\ q = more * r + larger * r
      BY <3>4, <3>5 DEF Priced
    <3> HIDE DEF p, q
    <3>7. QED  BY <3>2, <3>3, <3>6
  <2>3. CASE at >= Bythos /\ before < Bythos /\ witness <= 2 * larger
    <3>1. PICK r \in Nat : r = 2 * b
      OBVIOUS
    <3>2. words * b \in Nat /\ more * r \in Nat /\ words * b <= more * r
      BY <3>1, TimesGrows
    <3>3. witness * b \in Nat /\ (2 * larger) * b \in Nat /\ witness * b <= (2 * larger) * b
      BY <2>3, TimesGrows
    <3>4. larger * r = (2 * larger) * b /\ larger * r \in Nat
      BY <3>1
    <3>5. (witness * b) \div d <= witness * b /\ (witness * b) \div d \in Nat
      BY <3>3, QuotientBelow, QuotientGrows
    <3>6. (larger * r) \div 1 = larger * r
      BY <3>4, QuotientBelow
    <3>7. Rate(at) = b /\ Rate(before) = r /\ at >= Bythos /\ ~(before >= Bythos)
      BY <1>1, <1>3, <2>3, <3>1 DEF Rate
    <3>8. p = words * b + (witness * b) \div d /\ q = more * r + larger * r
      BY <1>2, <3>6, <3>7 DEF Priced
    <3> HIDE DEF p, q
    <3>9. QED  BY <3>2, <3>3, <3>4, <3>5, <3>8
  <2>4. QED  BY <2>1, <2>2, <2>3
<1>5. p \in Nat /\ q \in Nat
  BY FeeByIs
<1>6. FeeBy(words, witness, at) = Max({p, LeastFee}) /\ FeeBy(more, larger, before) = Max({q, LeastFee})
  BY FeeByIs
<1> HIDE DEF p, q
<1>7. QED
  BY <1>1, <1>4, <1>5, <1>6, MaxOfTwo

-----------------------------------------------------------------------------
(* The transaction that is priced *)

\* The draft has the fee that was found for it, at a page that has been.
FeeInv ==
  /\ page \in Nat
  /\ draft # NoDraft =>
       /\ draft.seeds \in WantedSeeds /\ draft.at \in Nat /\ draft.at <= page
       /\ draft.fee = calculate_min_fee(draft.seeds, draft.at >= Bythos, draft.at)

LEMMA FeeInitially == SpendsInit => FeeInv
BY DEF SpendsInit, FeeInv

LEMMA FeeNext == FeeInv /\ [SpendsNext]_spendVars => FeeInv'
<1> SUFFICES ASSUME FeeInv, [SpendsNext]_spendVars
             PROVE  FeeInv'
  OBVIOUS
<1>1. CASE NextPage
  <2>1. page' = page + 1 /\ draft' = draft
    BY <1>1 DEF NextPage
  <2>2. QED  BY <2>1 DEF FeeInv
<1>2. ASSUME NEW seeds \in WantedSeeds, Price(seeds) PROVE FeeInv'
  <2>1. /\ page' = page
        /\ draft' = [seeds |-> seeds, at |-> page,
                     fee |-> calculate_min_fee(seeds, page >= Bythos, page)]
    BY <1>2 DEF Price
  <2>2. /\ draft'.seeds = seeds /\ draft'.at = page
        /\ draft'.fee = calculate_min_fee(seeds, page >= Bythos, page)
    BY <2>1
  <2>3. QED  BY <2>1, <2>2 DEF FeeInv
<1>3. CASE UNCHANGED <<page, draft>>
  BY <1>3 DEF FeeInv
<1>4. ASSUME AskSigHash \/ UNCHANGED spendVars PROVE UNCHANGED <<page, draft>>
  BY <1>4 DEF AskSigHash, spendVars
<1>5. ASSUME NEW branch, NEW parts, NEW hax, BuildBranchWitness(branch, parts, hax)
      PROVE  UNCHANGED <<page, draft>>
  BY <1>5 DEF BuildBranchWitness
<1>6. ASSUME NEW key, NEW coinbase, BuildWitness(key, coinbase) PROVE UNCHANGED <<page, draft>>
  BY <1>6 DEF BuildWitness
<1>7. QED
  BY <1>1, <1>2, <1>3, <1>4, <1>5, <1>6 DEF SpendsNext

\* Before bythos the order does not matter, and from then on only where data collide.
LEMMA FeeInAnyOrder ==
  ASSUME NEW seeds \in WantedSeeds, NEW sorted, IsOrder(seeds, sorted), NEW full,
         NEW at \in Nat, ~(Collides(seeds) /\ at >= Bythos)
  PROVE  FeeIn(seeds, sorted, full, at) = calculate_min_fee(seeds, full, at)
<1>1. PICK same : same = [i \in DOMAIN seeds |-> i]
  OBVIOUS
<1>2. IsOrder(seeds, same)
  BY <1>1 DEF IsOrder, IsInjective
<1>3. at >= Bythos => MergedWords(seeds, sorted) = MergedWords(seeds, same)
  BY <1>2, WantedAreSeeds, MergedWordsAlike
<1>4. QED
  BY <1>1, <1>3 DEF FeeIn, calculate_min_fee

\* The fee is enough later.
LEMMA FeeLater ==
  ASSUME NEW seeds \in WantedSeeds, NEW sorted, IsOrder(seeds, sorted), NEW full \in BOOLEAN,
         NEW at \in Nat, NEW later \in Nat, at <= later, full => later >= Bythos,
         ~(Collides(seeds) /\ at >= Bythos)
  PROVE  FeeIn(seeds, sorted, full, later) <= calculate_min_fee(seeds, at >= Bythos, at)
<1>1. AreSeeds(seeds)
  BY WantedAreSeeds
<1>2. Bythos \in Nat /\ WitnessLeaves \in Nat \ {0}
  BY SpendsAssumption
<1>3. PICK legacy, merged : legacy = LegacyWords(seeds) /\ merged = MergedWords(seeds, sorted)
  OBVIOUS
<1>4. legacy \in Nat /\ merged \in Nat /\ merged <= legacy
  BY <1>1, <1>3, MergedIsLess
<1>5. PICK v, w : v = WitnessWords(full) /\ w = WitnessWords(at >= Bythos)
  OBVIOUS
<1>6. /\ v \in Nat /\ w \in Nat
      /\ v = WitnessLeaves + (IF full THEN 1 ELSE 0)
      /\ w = WitnessLeaves + (IF at >= Bythos THEN 1 ELSE 0)
  BY <1>2, <1>5 DEF WitnessWords
<1>7. calculate_min_fee(seeds, at >= Bythos, at) = FeeIn(seeds, sorted, at >= Bythos, at)
  BY FeeInAnyOrder
<1>8. CASE at >= Bythos
  <2>1. later >= Bythos /\ v <= w
    BY <1>2, <1>6, <1>8
  <2>2. FeeIn(seeds, sorted, full, later) = FeeBy(merged, v, later)
    BY <1>3, <1>5, <2>1 DEF FeeIn
  <2>3. FeeIn(seeds, sorted, at >= Bythos, at) = FeeBy(merged, w, at)
    BY <1>3, <1>5, <1>8 DEF FeeIn
  <2>4. v \in Nat /\ w \in Nat /\ merged \in Nat /\ merged <= merged
    BY <1>4, <1>6
  <2>5. FeeBy(merged, v, later) <= FeeBy(merged, w, at)
    BY <1>8, <2>1, <2>4, FeeGrows
  <2>6. QED  BY <1>7, <2>2, <2>3, <2>5
<1>9. CASE at < Bythos /\ later < Bythos
  <2>1. ~(at >= Bythos) /\ ~(later >= Bythos) /\ ~full /\ v <= w
    BY <1>2, <1>6, <1>9
  <2>2. /\ FeeIn(seeds, sorted, full, later) = FeeBy(legacy, v, later)
        /\ FeeIn(seeds, sorted, at >= Bythos, at) = FeeBy(legacy, w, at)
    BY <1>3, <1>5, <2>1 DEF FeeIn
  <2>3. FeeBy(legacy, v, later) <= FeeBy(legacy, w, at)
    BY <1>4, <1>6, <1>9, <2>1, FeeGrows
  <2>4. QED  BY <1>7, <2>2, <2>3
<1>10. CASE at < Bythos /\ later >= Bythos
  <2>1. ~(at >= Bythos) /\ v <= 2 * w
    BY <1>2, <1>6, <1>10
  <2>2. /\ FeeIn(seeds, sorted, full, later) = FeeBy(merged, v, later)
        /\ FeeIn(seeds, sorted, at >= Bythos, at) = FeeBy(legacy, w, at)
    BY <1>3, <1>5, <1>10, <2>1 DEF FeeIn
  <2>3. FeeBy(merged, v, later) <= FeeBy(legacy, w, at)
    BY <1>4, <1>6, <1>10, <2>1, FeeGrows
  <2>4. QED  BY <1>7, <2>2, <2>3
<1>11. QED
  BY <1>2, <1>8, <1>9, <1>10

\* The fee told is consensus' own, and enough at each later page.
LEMMA FeeInvStands == FeeInv => FeeStands
<1> SUFFICES ASSUME FeeInv, draft # NoDraft, ~(Collides(draft.seeds) /\ draft.at >= Bythos),
                    NEW sorted \in [DOMAIN draft.seeds -> DOMAIN draft.seeds], IsInjective(sorted)
             PROVE  /\ page = draft.at
                       => draft.fee = FeeIn(draft.seeds, sorted, page >= Bythos, page)
                    /\ \A full \in BOOLEAN : (full => page >= Bythos) =>
                         draft.fee >= FeeIn(draft.seeds, sorted, full, page)
  BY DEF FeeStands
<1>1. PICK seeds, at : seeds = draft.seeds /\ at = draft.at
  OBVIOUS
<1>2. /\ page \in Nat /\ seeds \in WantedSeeds /\ at \in Nat /\ at <= page
      /\ draft.fee = calculate_min_fee(seeds, at >= Bythos, at)
      /\ ~(Collides(seeds) /\ at >= Bythos)
  BY <1>1 DEF FeeInv
<1>3. IsOrder(seeds, sorted)
  BY <1>1 DEF IsOrder
<1>4. FeeIn(seeds, sorted, at >= Bythos, at) = calculate_min_fee(seeds, at >= Bythos, at)
  BY <1>2, <1>3, FeeInAnyOrder
<1>5. ASSUME NEW full \in BOOLEAN, full => page >= Bythos
      PROVE  FeeIn(seeds, sorted, full, page) <= draft.fee
  BY <1>2, <1>3, <1>5, FeeLater
<1>6. page = at => draft.fee = FeeIn(seeds, sorted, page >= Bythos, page)
  BY <1>2, <1>4
<1>7. QED
  BY <1>1, <1>5, <1>6

\* FeeStands, for every list of seeds that is priced.
THEOREM FeeStandsCorrect == SpendsInit /\ [][SpendsNext]_spendVars => []FeeStands
<1>1. QED
  BY FeeInitially, FeeNext, FeeInvStands, PTL

-----------------------------------------------------------------------------
(* The tree of a lock *)

\* The locks that there are proofs for: one branch, or 2, 4, 8 or 16.
IsLock(lock) == Len(lock) \in {1, 2, 4, 8, 16} /\ DOMAIN lock = 1 .. Len(lock)

\* The powers of two up to one more than the deepest tree.
LEMMA PowersOfTwo ==
  /\ TwoTo(0) = 1 /\ TwoTo(1) = 2 /\ TwoTo(2) = 4
  /\ TwoTo(3) = 8 /\ TwoTo(4) = 16 /\ TwoTo(5) = 32
BY DEF TwoTo

\* The lower powers of two, each half of the next.
LEMMA TwoToHalves ==
  ASSUME NEW k \in 1 .. 5
  PROVE  /\ k - 1 \in 0 .. 4 /\ TwoTo(k) \in Nat
         /\ TwoTo(k - 1) \in {1, 2, 4, 8, 16} /\ TwoTo(k) = 2 * TwoTo(k - 1)
<1>1. k = 1 \/ k = 2 \/ k = 3 \/ k = 4 \/ k = 5
  OBVIOUS
<1>2. QED  BY <1>1, PowersOfTwo

\* A lock has a power of two of branches.
LEMMA DepthIs ==
  ASSUME NEW lock, IsLock(lock)
  PROVE  Depth(lock) \in 0 .. 4 /\ Len(lock) = TwoTo(Depth(lock))
<1>1. \E d \in 0 .. 4 : Len(lock) = TwoTo(d)
  <2>1. {0, 1, 2, 3, 4} \subseteq 0 .. 4
    OBVIOUS
  <2>2. \E d \in {0, 1, 2, 3, 4} : Len(lock) = TwoTo(d)
    BY PowersOfTwo DEF IsLock
  <2>3. QED  BY <2>1, <2>2
<1>2. QED  BY <1>1 DEF Depth

\* A pair is told from all that is hashed alone, and from its halves what they are.
LEMMA Cells ==
  ASSUME NEW l, NEW r, NEW x
  PROVE  /\ IsCell(HashPair(l, r)) /\ HashPair(l, r).left = l /\ HashPair(l, r).right = r
         /\ ~IsCell(ConditionHash(x)) /\ ~IsCell(hash_leaf_atom(x))
BY DEF IsCell, HashPair, ConditionHash, hash_leaf_atom

\* The equation of the levels.
Level(level, lock, k) ==
  IF k = 0 THEN [i \in 1 .. Len(lock) |-> ConditionHash(lock[i])]
  ELSE [i \in 1 .. Len(lock) \div TwoTo(k) |->
          HashPair(level[k - 1][2 * i - 1], level[k - 1][2 * i])]

\* The levels of a tree are what their equation says: there is a function that meets it.
LEMMA LevelsAre ==
  ASSUME NEW lock, IsLock(lock)
  PROVE  Levels(lock) = [k \in 0 .. Depth(lock) |-> Level(Levels(lock), lock, k)]
<1> DEFINE first == [i \in 1 .. Len(lock) |-> ConditionHash(lock[i])]
           Above(l, k) == [i \in 1 .. Len(lock) \div TwoTo(k) |->
                             HashPair(l[2 * i - 1], l[2 * i])]
           b == Above(first, 1)  c == Above(b, 2)  d == Above(c, 3)  e == Above(d, 4)
           G == [k \in 0 .. Depth(lock) |->
                   IF k = 0 THEN first ELSE IF k = 1 THEN b ELSE IF k = 2 THEN c
                   ELSE IF k = 3 THEN d ELSE e]
<1>1. \A F, k : Level(F, lock, k) = IF k = 0 THEN first ELSE Above(F[k - 1], k)
  BY DEF Level
<1>2. Levels(lock) =
        CHOOSE F : F = [k \in 0 .. Depth(lock) |->
                          IF k = 0 THEN first ELSE Above(F[k - 1], k)]
  BY DEF Levels
<1> HIDE DEF Above, first
<1>3. G = [k \in 0 .. Depth(lock) |-> IF k = 0 THEN first ELSE Above(G[k - 1], k)]
  <2>1. ASSUME NEW k \in 0 .. Depth(lock)
        PROVE  G[k] = IF k = 0 THEN first ELSE Above(G[k - 1], k)
    <3>1. Depth(lock) \in 0 .. 4
      BY DepthIs
    <3>2. k = 0 \/ k = 1 \/ k = 2 \/ k = 3 \/ k = 4
      BY <3>1
    <3>3. k # 0 => k - 1 \in 0 .. Depth(lock)
      BY <3>1
    <3>4. QED  BY <3>2, <3>3
  <2>2. QED  BY <2>1
<1> HIDE DEF G
<1>4. Levels(lock) = [k \in 0 .. Depth(lock) |->
                        IF k = 0 THEN first ELSE Above(Levels(lock)[k - 1], k)]
  BY <1>2, <1>3, Zenon
<1>5. QED  BY <1>1, <1>4, Zenon

\* A level above the first pairs the one below it.
LEMMA LevelIs ==
  ASSUME NEW lock, IsLock(lock), NEW k \in 0 .. Depth(lock),
         NEW j \in 1 .. Len(lock) \div TwoTo(k)
  PROVE  /\ k = 0 => Levels(lock)[k][j] = ConditionHash(lock[j])
         /\ k # 0 => /\ k - 1 \in 0 .. Depth(lock)
                     /\ 2 * j - 1 \in 1 .. Len(lock) \div TwoTo(k - 1)
                     /\ 2 * j \in 1 .. Len(lock) \div TwoTo(k - 1)
                     /\ Levels(lock)[k][j] = HashPair(Levels(lock)[k - 1][2 * j - 1],
                                                      Levels(lock)[k - 1][2 * j])
<1>1. Levels(lock)[k] = Level(Levels(lock), lock, k)
  BY LevelsAre
<1>2. CASE k = 0
  <2>1. j \in 1 .. Len(lock)
    BY <1>2, PowersOfTwo DEF IsLock
  <2>2. QED  BY <1>1, <1>2, <2>1 DEF Level
<1>3. CASE k # 0
  <2>1. k \in 1 .. 5 /\ k - 1 \in 0 .. Depth(lock)
    BY <1>3, DepthIs
  <2>2. /\ 2 * j - 1 \in 1 .. Len(lock) \div TwoTo(k - 1)
        /\ 2 * j \in 1 .. Len(lock) \div TwoTo(k - 1)
    <3>1. PICK w \in {1, 2, 4, 8, 16} : TwoTo(k - 1) = w /\ TwoTo(k) = 2 * w
      BY <2>1, TwoToHalves
    <3>2. j \in 1 .. Len(lock) \div (2 * w)
      BY <3>1
    <3>3. 2 * j \in 1 .. Len(lock) \div w /\ 2 * j - 1 \in 1 .. Len(lock) \div w
      BY <3>2 DEF IsLock
    <3>4. QED  BY <3>1, <3>3
  <2>3. Levels(lock)[k][j] = HashPair(Levels(lock)[k - 1][2 * j - 1],
                                      Levels(lock)[k - 1][2 * j])
    BY <1>1, <1>3 DEF Level
  <2>4. QED  BY <1>3, <2>1, <2>2, <2>3
<1>4. QED  BY <1>2, <1>3

\* What is within a tree, by the number of steps down.
Row(row, h, k) ==
  IF k = 0 THEN {h} ELSE UNION {{t.left, t.right} : t \in {u \in row[k - 1] : IsCell(u)}}

\* There are rows that meet their equation, down to the depth of the tree.
LEMMA RowsExist ==
  ASSUME NEW h
  PROVE  \E row : /\ row = [k \in 0 .. 5 |-> Row(row, h, k)]
                  /\ Hashables(h) = UNION {row[k] : k \in 0 .. 5}
<1> DEFINE Within(S) == UNION {{t.left, t.right} : t \in {u \in S : IsCell(u)}}
           a == {h}  b == Within(a)  c == Within(b)  d == Within(c)  e == Within(d)
           f == Within(e)
           G == [k \in 0 .. 5 |->
                   IF k = 0 THEN a ELSE IF k = 1 THEN b ELSE IF k = 2 THEN c
                   ELSE IF k = 3 THEN d ELSE IF k = 4 THEN e ELSE f]
           row == CHOOSE F : F = [k \in 0 .. 5 |-> IF k = 0 THEN {h} ELSE Within(F[k - 1])]
<1>1. \A F, k : Row(F, h, k) = IF k = 0 THEN {h} ELSE Within(F[k - 1])
  BY DEF Row
<1>2. Hashables(h) = UNION {row[k] : k \in 0 .. 5}
  BY DEF Hashables
<1> HIDE DEF Within
<1>3. G = [k \in 0 .. 5 |-> IF k = 0 THEN {h} ELSE Within(G[k - 1])]
  <2>1. ASSUME NEW k \in 0 .. 5
        PROVE  G[k] = IF k = 0 THEN {h} ELSE Within(G[k - 1])
    <3>1. k = 0 \/ k = 1 \/ k = 2 \/ k = 3 \/ k = 4 \/ k = 5
      OBVIOUS
    <3>2. k # 0 => k - 1 \in 0 .. 5
      OBVIOUS
    <3>3. QED  BY <3>1, <3>2
  <2>2. QED  BY <2>1
<1> HIDE DEF G
<1>4. row = [k \in 0 .. 5 |-> IF k = 0 THEN {h} ELSE Within(row[k - 1])]
  BY <1>3, Zenon
<1> HIDE DEF row
<1>5. row = [k \in 0 .. 5 |-> Row(row, h, k)]
  BY <1>1, <1>4, Zenon
<1>6. QED  BY <1>2, <1>5

\* The equation of the proofs of all leaves.
Beside(p, q, l, r) ==
  [i \in 1 .. Len(p) + Len(q) |->
     IF i <= Len(p) THEN [axis |-> Peg(2, p[i].axis), path |-> Append(p[i].path, r)]
     ELSE [axis |-> Peg(3, q[i - Len(p)].axis), path |-> Append(q[i - Len(p)].path, l)]]

\* The proof of a leaf that is the whole tree.
LeafAlone == <<[axis |-> 1, path |-> << >>]>>

\* Proofs of all leaves of the trees within H, by the depth left.
IsProofs(proofs, H) ==
  proofs = [k \in 0 .. 5 |->
              [t \in H |->
                 IF k = 0 \/ ~IsCell(t) THEN LeafAlone
                 ELSE Beside(proofs[k - 1][t.left], proofs[k - 1][t.right], t.left, t.right)]]

\* There are proofs that meet their equation, for all trees within the tree of a lock.
LEMMA ProofsExist ==
  ASSUME NEW h
  PROVE  \E proofs : IsProofs(proofs, Hashables(h)) /\ LeafProofs(h) = proofs[5][h]
<1> DEFINE H == Hashables(h)
           Alone == [t \in H |-> LeafAlone]
           Over(P) == [t \in H |-> IF ~IsCell(t) THEN LeafAlone
                                   ELSE Beside(P[t.left], P[t.right], t.left, t.right)]
           b == Over(Alone)  c == Over(b)  d == Over(c)  e == Over(d)  f == Over(e)
           G == [k \in 0 .. 5 |->
                   IF k = 0 THEN Alone ELSE IF k = 1 THEN b ELSE IF k = 2 THEN c
                   ELSE IF k = 3 THEN d ELSE IF k = 4 THEN e ELSE f]
           Eq(F, k) ==
             [t \in H |->
                IF k = 0 \/ ~IsCell(t) THEN LeafAlone
                ELSE Beside(F[k - 1][t.left], F[k - 1][t.right], t.left, t.right)]
           proofs == CHOOSE F : F = [k \in 0 .. 5 |-> Eq(F, k)]
<1>1. \A F, k : Eq(F, k) = IF k = 0 THEN Alone ELSE Over(F[k - 1])
  <2>1. \A F, k : k = 0 => Eq(F, k) = Alone
    OBVIOUS
  <2>2. \A F, k : k # 0 => Eq(F, k) = Over(F[k - 1])
    OBVIOUS
  <2>3. QED  BY <2>1, <2>2
<1>2. LeafProofs(h) = proofs[5][h]
  BY DEF LeafProofs, Beside, LeafAlone
<1>3. \A F : IsProofs(F, H) <=> F = [k \in 0 .. 5 |-> Eq(F, k)]
  BY DEF IsProofs
<1> HIDE DEF Over, Alone, H, Eq
<1>4. G = [k \in 0 .. 5 |-> Eq(G, k)]
  <2>1. ASSUME NEW k \in 0 .. 5
        PROVE  G[k] = IF k = 0 THEN Alone ELSE Over(G[k - 1])
    <3>1. k = 0 \/ k = 1 \/ k = 2 \/ k = 3 \/ k = 4 \/ k = 5
      OBVIOUS
    <3>2. k # 0 => k - 1 \in 0 .. 5
      OBVIOUS
    <3>3. QED  BY <3>1, <3>2
  <2>2. \A k \in 0 .. 5 : G[k] = Eq(G, k)
    BY <1>1, <2>1
  <2>3. G = [k \in 0 .. 5 |-> G[k]]
    OBVIOUS
  <2> HIDE DEF G
  <2>4. QED  BY <2>2, <2>3
<1> HIDE DEF G
<1>5. proofs = [k \in 0 .. 5 |-> Eq(proofs, k)]
  BY <1>4, Zenon
<1> HIDE DEF proofs
<1>6. IsProofs(proofs, H)
  BY <1>3, <1>5, Zenon
<1>7. QED  BY <1>2, <1>6 DEF H

-----------------------------------------------------------------------------
(* Lists of proofs *)

\* A sequence that is written as a function has that length.
LEMMA LenIs ==
  ASSUME NEW n \in Nat, NEW s, s = [i \in 1 .. n |-> s[i]]
  PROVE  Len(s) = n
<1>1. s \in [1 .. n -> {s[i] : i \in 1 .. n}]
  OBVIOUS
<1>2. s \in Seq({s[i] : i \in 1 .. n})
  BY <1>1
<1>3. QED  BY <1>1, <1>2

\* One more at the end of a sequence that is written as a function.
LEMMA AppendIs ==
  ASSUME NEW n \in Nat, NEW s, s = [i \in 1 .. n |-> s[i]], NEW x
  PROVE  Append(s, x) = [i \in 1 .. n + 1 |-> IF i <= n THEN s[i] ELSE x]
<1> DEFINE S == {s[i] : i \in 1 .. n} \cup {x}
<1>1. s \in [1 .. n -> S]
  OBVIOUS
<1>2. s \in Seq(S) /\ Len(s) = n
  BY <1>1, LenIs
<1> HIDE DEF S
<1>3. QED  BY <1>2

\* Peg with the sides of a pair.
LEMMA PegIs ==
  ASSUME NEW w \in {1, 2, 4, 8, 16}, NEW r \in Nat, r < w
  PROVE  Peg(2, w + r) = 2 * w + r /\ Peg(3, w + r) = 3 * w + r
<1> DEFINE Between(k) == TwoTo(k) <= w + r /\ w + r < TwoTo(k + 1)
<1>1. \A k \in 0 .. 4 : Between(k) <=> TwoTo(k) = w
  <2> TAKE k \in 0 .. 4
  <2>1. k = 0 \/ k = 1 \/ k = 2 \/ k = 3 \/ k = 4
    OBVIOUS
  <2>2. w = 1 \/ w = 2 \/ w = 4 \/ w = 8 \/ w = 16
    OBVIOUS
  <2>3. 0 + 1 = 1 /\ 1 + 1 = 2 /\ 2 + 1 = 3 /\ 3 + 1 = 4 /\ 4 + 1 = 5
    OBVIOUS
  <2>4. QED  BY <2>1, <2>2, <2>3, PowersOfTwo
<1>2. \E k \in 0 .. 4 : TwoTo(k) = w
  <2>1. {0, 1, 2, 3, 4} \subseteq 0 .. 4
    OBVIOUS
  <2>2. QED  BY <2>1, PowersOfTwo
<1>3. PICK e : e = CHOOSE k \in 0 .. 4 : Between(k)
  OBVIOUS
<1>4. TwoTo(e) = w
  <2> HIDE DEF Between
  <2>1. \E k \in 0 .. 4 : Between(k)
    BY <1>1, <1>2
  <2>2. e \in 0 .. 4 /\ Between(e)
    BY <1>3, <2>1, Zenon
  <2>3. QED  BY <1>1, <2>2
<1>5. Peg(2, w + r) = (2 - 1) * TwoTo(e) + (w + r) /\ Peg(3, w + r) = (3 - 1) * TwoTo(e) + (w + r)
  BY <1>3 DEF Peg
<1>6. QED  BY <1>4, <1>5

\* The sibling at a level is the other of its pair.
LEMMA SiblingIs ==
  ASSUME NEW lock, NEW k \in 1 .. 4, NEW j \in Nat \ {0}, NEW r \in Nat, r < TwoTo(k - 1)
  PROVE  /\ SiblingOf(lock, (2 * j - 2) * TwoTo(k - 1) + r, k) = Levels(lock)[k - 1][2 * j]
         /\ SiblingOf(lock, (2 * j - 1) * TwoTo(k - 1) + r, k) = Levels(lock)[k - 1][2 * j - 1]
<1> k \in 1 .. 5
  OBVIOUS
<1>1. PICK w \in {1, 2, 4, 8, 16} : TwoTo(k - 1) = w
  BY TwoToHalves
<1>2. ((2 * j - 2) * w + r) \div w = 2 * j - 2
  BY <1>1
<1>3. ((2 * j - 1) * w + r) \div w = 2 * j - 1
  BY <1>1
<1>4. (2 * j - 2) % 2 = 0 /\ (2 * j - 1) % 2 = 1
  OBVIOUS
<1>5. (2 * j - 2 + 1) + 1 = 2 * j /\ (2 * j - 1 - 1) + 1 = 2 * j - 1
  OBVIOUS
<1>6. SiblingOf(lock, (2 * j - 2) * w + r, k) = Levels(lock)[k - 1][(2 * j - 2 + 1) + 1]
  BY <1>1, <1>2, <1>4 DEF SiblingOf
<1>7. SiblingOf(lock, (2 * j - 1) * w + r, k) = Levels(lock)[k - 1][(2 * j - 1 - 1) + 1]
  BY <1>1, <1>3, <1>4 DEF SiblingOf
<1>8. QED  BY <1>1, <1>5, <1>6, <1>7

\* What the SDK's formula gives within the tree below a node: leaf i of node j of level k.
PathTo(lock, k, n) == [m \in 1 .. k |-> SiblingOf(lock, n, m)]
LeafProof(lock, k, j, i) ==
  [axis |-> TwoTo(k) + (i - 1), path |-> PathTo(lock, k, (j - 1) * TwoTo(k) + (i - 1))]
LeafList(lock, k, j) == [i \in 1 .. TwoTo(k) |-> LeafProof(lock, k, j, i)]

\* A path of one more step.
LEMMA PathGrows ==
  ASSUME NEW lock, NEW k \in 1 .. 4, NEW n, NEW x, SiblingOf(lock, n, k) = x
  PROVE  Append(PathTo(lock, k - 1, n), x) = PathTo(lock, k, n)
<1>1. PICK p : p = PathTo(lock, k - 1, n)
  OBVIOUS
<1>2. k - 1 \in Nat /\ p = [i \in 1 .. k - 1 |-> p[i]]
  BY <1>1 DEF PathTo
<1>3. Append(p, x) = [i \in 1 .. (k - 1) + 1 |-> IF i <= k - 1 THEN p[i] ELSE x]
  BY <1>2, AppendIs
<1>4. ASSUME NEW i \in 1 .. k PROVE (IF i <= k - 1 THEN p[i] ELSE x) = SiblingOf(lock, n, i)
  <2>1. CASE i <= k - 1
    BY <1>1, <2>1 DEF PathTo
  <2>2. CASE i = k
    BY <2>2
  <2>3. QED  BY <2>1, <2>2
<1>5. (k - 1) + 1 = k
  OBVIOUS
<1>6. QED  BY <1>1, <1>3, <1>4, <1>5 DEF PathTo

\* The proofs of a pair are those of its halves, with the other half as one more sibling.
LEMMA ListsBeside ==
  ASSUME NEW lock, NEW k \in 1 .. 4, NEW j \in Nat \ {0}
  PROVE  Beside(LeafList(lock, k - 1, 2 * j - 1), LeafList(lock, k - 1, 2 * j),
                Levels(lock)[k - 1][2 * j - 1], Levels(lock)[k - 1][2 * j])
           = LeafList(lock, k, j)
<1> k \in 1 .. 5
  OBVIOUS
<1>1. PICK w \in {1, 2, 4, 8, 16} : TwoTo(k - 1) = w /\ TwoTo(k) = 2 * w
  BY TwoToHalves
<1>2. PICK p, q : p = LeafList(lock, k - 1, 2 * j - 1) /\ q = LeafList(lock, k - 1, 2 * j)
  OBVIOUS
<1>3. PICK l, r : l = Levels(lock)[k - 1][2 * j - 1] /\ r = Levels(lock)[k - 1][2 * j]
  OBVIOUS
<1>4. w \in Nat /\ p = [i \in 1 .. w |-> p[i]] /\ q = [i \in 1 .. w |-> q[i]]
  BY <1>1, <1>2 DEF LeafList
<1>5. Len(p) = w /\ Len(q) = w
  BY <1>4, LenIs
<1>6. ASSUME NEW i \in 1 .. 2 * w, i <= w
      PROVE  [axis |-> Peg(2, p[i].axis), path |-> Append(p[i].path, r)] = LeafProof(lock, k, j, i)
  <2>1. p[i] = LeafProof(lock, k - 1, 2 * j - 1, i)
    BY <1>1, <1>2, <1>6 DEF LeafList
  <2>2. PICK n : n = (2 * j - 2) * w + (i - 1)
    OBVIOUS
  <2>3. n = (2 * j - 1 - 1) * w + (i - 1) /\ n = (j - 1) * (2 * w) + (i - 1)
    BY <2>2
  <2>4. p[i].axis = w + (i - 1) /\ p[i].path = PathTo(lock, k - 1, n)
    BY <1>1, <2>1, <2>3 DEF LeafProof
  <2>5. i - 1 \in Nat /\ i - 1 < w
    BY <1>6
  <2>6. Peg(2, w + (i - 1)) = 2 * w + (i - 1)
    BY <2>5, PegIs
  <2>7. SiblingOf(lock, n, k) = r
    <3>1. PICK x : x = i - 1
      OBVIOUS
    <3>2. x \in Nat /\ x < TwoTo(k - 1)
      BY <1>1, <2>5, <3>1
    <3>3. SiblingOf(lock, (2 * j - 2) * TwoTo(k - 1) + x, k) = r
      BY <1>3, <3>2, SiblingIs, Zenon
    <3>4. QED  BY <1>1, <2>2, <3>1, <3>3
  <2>8. Append(PathTo(lock, k - 1, n), r) = PathTo(lock, k, n)
    BY <2>7, PathGrows
  <2>9. QED  BY <1>1, <2>3, <2>4, <2>6, <2>8 DEF LeafProof
<1>7. ASSUME NEW i \in 1 .. 2 * w, ~(i <= w)
      PROVE  [axis |-> Peg(3, q[i - w].axis), path |-> Append(q[i - w].path, l)]
               = LeafProof(lock, k, j, i)
  <2>1. i - w \in 1 .. w
    BY <1>7
  <2>2. q[i - w] = LeafProof(lock, k - 1, 2 * j, i - w)
    BY <1>1, <1>2, <2>1 DEF LeafList
  <2>3. PICK n : n = (2 * j - 1) * w + ((i - w) - 1)
    OBVIOUS
  <2>4. n = (j - 1) * (2 * w) + (i - 1)
    BY <2>3
  <2>5. q[i - w].axis = w + ((i - w) - 1) /\ q[i - w].path = PathTo(lock, k - 1, n)
    BY <1>1, <2>2, <2>3 DEF LeafProof
  <2>6. (i - w) - 1 \in Nat /\ (i - w) - 1 < w
    BY <2>1
  <2>7. Peg(3, w + ((i - w) - 1)) = 3 * w + ((i - w) - 1)
    BY <2>6, PegIs
  <2>8. 3 * w + ((i - w) - 1) = 2 * w + (i - 1)
    OBVIOUS
  <2>9. SiblingOf(lock, n, k) = l
    <3>1. PICK x : x = (i - w) - 1
      OBVIOUS
    <3>2. x \in Nat /\ x < TwoTo(k - 1)
      BY <1>1, <2>6, <3>1
    <3>3. SiblingOf(lock, (2 * j - 1) * TwoTo(k - 1) + x, k) = l
      BY <1>3, <3>2, SiblingIs, Zenon
    <3>4. QED  BY <1>1, <2>3, <3>1, <3>3
  <2>10. Append(PathTo(lock, k - 1, n), l) = PathTo(lock, k, n)
    BY <2>9, PathGrows
  <2>11. QED  BY <1>1, <2>4, <2>5, <2>7, <2>8, <2>10 DEF LeafProof
<1>8. Len(p) + Len(q) = 2 * w
  BY <1>5
<1>9. Beside(p, q, l, r) = [i \in 1 .. 2 * w |-> LeafProof(lock, k, j, i)]
  BY <1>5, <1>6, <1>7, <1>8 DEF Beside
<1>10. QED  BY <1>1, <1>2, <1>3, <1>9 DEF LeafList

-----------------------------------------------------------------------------
(* The chain's own proof of a branch *)

\* The level below, in the numbers that the induction on levels meets.
LEMMA LevelBelow ==
  ASSUME NEW d \in 0 .. 4, NEW e \in Nat, e + 1 <= d
  PROVE  /\ d - e \in 1 .. 4 /\ d - e \in 1 .. 5 /\ d - e \in 0 .. d
         /\ d - (e + 1) = (d - e) - 1 /\ e <= d
OBVIOUS

\* Each node of the tree of branches is within the tree of the lock.
LEMMA NodesWithin ==
  ASSUME NEW lock, IsLock(lock), NEW k \in 0 .. Depth(lock),
         NEW j \in 1 .. Len(lock) \div TwoTo(k)
  PROVE  Levels(lock)[k][j] \in Hashables(lock_root(lock))
<1> DEFINE d == Depth(lock)
           root == lock_root(lock)
           top == IF Len(lock) = 1 THEN 0 ELSE 1
<1>1. d \in 0 .. 4 /\ Len(lock) = TwoTo(d) /\ Len(lock) \in Nat
  <2>1. Len(lock) \in Nat
    BY DEF IsLock
  <2>2. QED  BY <2>1, DepthIs
<1>2. PICK row : /\ row = [i \in 0 .. 5 |-> Row(row, root, i)]
                 /\ Hashables(root) = UNION {row[i] : i \in 0 .. 5}
  BY RowsExist
<1>3. row[0] = {root}
  BY <1>2 DEF Row
<1>4. \A i \in 1 .. 5 : \A t \in row[i - 1] : IsCell(t) => t.left \in row[i] /\ t.right \in row[i]
  BY <1>2 DEF Row
<1>5. Levels(lock)[d][1] \in row[top]
  <2>1. CASE Len(lock) = 1
    BY <1>3, <2>1 DEF lock_root
  <2>2. CASE Len(lock) # 1
    <3>1. root = HashPair(hash_leaf_atom(Len(lock)), Levels(lock)[d][1])
      BY <2>2 DEF lock_root
    <3>2. 1 \in 1 .. 5 /\ 1 - 1 = 0
      OBVIOUS
    <3>3. QED  BY <1>3, <1>4, <2>2, <3>1, <3>2, Cells
  <2>3. QED  BY <2>1, <2>2
<1> DEFINE Reached(e) == \A i \in 1 .. Len(lock) \div TwoTo(d - e) :
                            Levels(lock)[d - e][i] \in row[top + e]
           E == {e \in Nat : e <= d => Reached(e)}
<1>6. 0 \in E
  <2>1. Len(lock) \div TwoTo(d - 0) = 1
    BY <1>1 DEF IsLock
  <2>2. d - 0 = d /\ top + 0 = top
    BY <1>1
  <2>3. Reached(0)
    BY <1>5, <2>1, <2>2
  <2>4. QED  BY <2>3
<1>7. ASSUME NEW e \in Nat, e \in E PROVE e + 1 \in E
  <2> SUFFICES ASSUME e + 1 <= d, NEW i \in 1 .. Len(lock) \div TwoTo(d - (e + 1))
               PROVE  Levels(lock)[d - (e + 1)][i] \in row[top + (e + 1)]
    OBVIOUS
  <2>1. PICK m : m = d - e
    OBVIOUS
  <2>2. m \in 1 .. 4 /\ m \in 1 .. 5 /\ m \in 0 .. d /\ d - (e + 1) = m - 1 /\ e <= d
    BY <1>1, <2>1, LevelBelow, Zenon
  <2>3. PICK w \in {1, 2, 4, 8, 16} : TwoTo(m - 1) = w /\ TwoTo(m) = 2 * w
    BY <2>2, TwoToHalves
  <2>4. PICK h : h = (i + 1) \div 2
    OBVIOUS
  <2>5. h \in 1 .. Len(lock) \div TwoTo(m) /\ (i = 2 * h - 1 \/ i = 2 * h)
    <3>1. i \in 1 .. Len(lock) \div w
      BY <2>2, <2>3
    <3>2. 2 * w <= Len(lock)
      <4>1. d = 1 \/ d = 2 \/ d = 3 \/ d = 4
        BY <1>1, <2>2
      <4>2. m = 1 \/ m = 2 \/ m = 3 \/ m = 4
        BY <2>2
      <4>3. m <= d
        BY <2>2
      <4>4. QED  BY <1>1, <2>3, <4>1, <4>2, <4>3, PowersOfTwo
    <3>3. (Len(lock) \div w) = 2 * (Len(lock) \div (2 * w))
      <4>1. PICK n \in {1, 2, 4, 8, 16} : n = Len(lock)
        BY DEF IsLock
      <4>2. 2 * w <= n
        BY <3>2, <4>1
      <4>3. n \div w = 2 * (n \div (2 * w))
        BY <4>2
      <4>4. QED  BY <4>1, <4>3
    <3>4. QED  BY <1>1, <2>3, <2>4, <3>1, <3>3
  <2>6. Levels(lock)[m][h] \in row[top + e]
    BY <1>7, <2>1, <2>2, <2>5
  <2>7. Levels(lock)[m][h] = HashPair(Levels(lock)[m - 1][2 * h - 1], Levels(lock)[m - 1][2 * h])
    BY <2>2, <2>5, LevelIs
  <2>8. top + (e + 1) \in 1 .. 5 /\ (top + (e + 1)) - 1 = top + e
    BY <1>1, <2>2
  <2>9. PICK l, r : /\ l = Levels(lock)[m - 1][2 * h - 1] /\ r = Levels(lock)[m - 1][2 * h]
                    /\ HashPair(l, r) \in row[(top + (e + 1)) - 1]
    BY <2>6, <2>7, <2>8
  <2>10. l \in row[top + (e + 1)] /\ r \in row[top + (e + 1)]
    <3>1. PICK x, t : x = top + (e + 1) /\ t = HashPair(l, r)
      OBVIOUS
    <3>2. IsCell(t) /\ t.left = l /\ t.right = r
      BY <3>1, Cells
    <3>3. x \in 1 .. 5 /\ t \in row[x - 1]
      BY <2>8, <2>9, <3>1
    <3>4. l \in row[x] /\ r \in row[x]
      BY <1>4, <3>2, <3>3
    <3>5. QED  BY <3>1, <3>4
  <2>11. Levels(lock)[m - 1][i] \in row[top + (e + 1)]
    BY <2>5, <2>9, <2>10
  <2>12. QED  BY <2>2, <2>11
<1>8. Nat \subseteq E
  <2> HIDE DEF E
  <2>1. QED  BY <1>6, <1>7, Induction
<1>9. d - k \in Nat /\ d - k <= d /\ d - (d - k) = k /\ top + (d - k) \in 0 .. 5
  BY <1>1
<1>10. Levels(lock)[k][j] \in row[top + (d - k)]
  BY <1>8, <1>9
<1>11. QED  BY <1>2, <1>9, <1>10

\* Below each node the chain finds what the formula gives.
LEMMA NodesProve ==
  ASSUME NEW lock, IsLock(lock), NEW proofs, IsProofs(proofs, Hashables(lock_root(lock))),
         NEW k \in 0 .. Depth(lock), NEW f \in k .. 5, NEW j \in 1 .. Len(lock) \div TwoTo(k)
  PROVE  proofs[f][Levels(lock)[k][j]] = LeafList(lock, k, j)
<1> DEFINE d == Depth(lock)
           H == Hashables(lock_root(lock))
           Told(m) == \A g \in m .. 5, i \in 1 .. Len(lock) \div TwoTo(m) :
                        proofs[g][Levels(lock)[m][i]] = LeafList(lock, m, i)
           K == {m \in Nat : m <= d => Told(m)}
<1>1. d \in 0 .. 4
  BY DepthIs
<1>2. \A g \in 0 .. 5, t \in H :
        /\ ~IsCell(t) => proofs[g][t] = LeafAlone
        /\ g # 0 /\ IsCell(t) =>
             proofs[g][t] = Beside(proofs[g - 1][t.left], proofs[g - 1][t.right], t.left, t.right)
  <2> DEFINE Of(g, t) ==
               IF g = 0 \/ ~IsCell(t) THEN LeafAlone
               ELSE Beside(proofs[g - 1][t.left], proofs[g - 1][t.right], t.left, t.right)
  <2>1. proofs = [g \in 0 .. 5 |-> [t \in H |-> Of(g, t)]]
    BY DEF IsProofs
  <2>2. ASSUME NEW g \in 0 .. 5, NEW t \in H PROVE proofs[g][t] = Of(g, t)
    <3> HIDE DEF Of, H
    <3>1. proofs[g] = [s \in H |-> Of(g, s)]
      BY <2>1
    <3>2. QED  BY <3>1
  <2>3. QED  BY <2>2
<1>3. 0 \in K
  <2> SUFFICES ASSUME NEW g \in 0 .. 5, NEW i \in 1 .. Len(lock) \div TwoTo(0)
               PROVE  proofs[g][Levels(lock)[0][i]] = LeafList(lock, 0, i)
    OBVIOUS
  <2>1. 0 \in 0 .. Depth(lock)
    BY <1>1
  <2>2. PICK t : t = Levels(lock)[0][i]
    OBVIOUS
  <2>3. t \in H /\ ~IsCell(t)
    BY <2>1, <2>2, LevelIs, NodesWithin, Cells
  <2>4. proofs[g][t] = LeafAlone
    BY <1>2, <2>3
  <2>5. LeafList(lock, 0, i) = LeafAlone
    <3>1. LeafProof(lock, 0, i, 1) = [axis |-> 1, path |-> << >>]
      BY PowersOfTwo DEF LeafProof, PathTo
    <3>2. LeafList(lock, 0, i) = [x \in 1 .. 1 |-> LeafProof(lock, 0, i, x)]
      BY PowersOfTwo DEF LeafList
    <3>3. QED  BY <3>1, <3>2 DEF LeafAlone
  <2>6. QED  BY <2>2, <2>4, <2>5
<1>4. ASSUME NEW m \in Nat, m \in K PROVE m + 1 \in K
  <2> SUFFICES ASSUME m + 1 <= d, NEW g \in (m + 1) .. 5,
                      NEW i \in 1 .. Len(lock) \div TwoTo(m + 1)
               PROVE  proofs[g][Levels(lock)[m + 1][i]] = LeafList(lock, m + 1, i)
    OBVIOUS
  <2>1. PICK n : n = m + 1
    OBVIOUS
  <2>2. n \in 1 .. 4 /\ n \in 0 .. Depth(lock) /\ n # 0 /\ n - 1 = m /\ m <= d
    BY <1>1, <2>1
  <2>3. i \in 1 .. Len(lock) \div TwoTo(n)
    BY <2>1
  <2>4. PICK l, r : l = Levels(lock)[n - 1][2 * i - 1] /\ r = Levels(lock)[n - 1][2 * i]
    OBVIOUS
  <2>5. /\ 2 * i - 1 \in 1 .. Len(lock) \div TwoTo(m) /\ 2 * i \in 1 .. Len(lock) \div TwoTo(m)
        /\ Levels(lock)[n][i] = HashPair(l, r)
    BY <2>2, <2>3, <2>4, LevelIs
  <2>6. HashPair(l, r) \in H
    BY <2>2, <2>3, <2>5, NodesWithin
  <2>7. g \in 0 .. 5 /\ g # 0 /\ g - 1 \in m .. 5
    OBVIOUS
  <2>8. proofs[g][HashPair(l, r)] = Beside(proofs[g - 1][l], proofs[g - 1][r], l, r)
    <3>1. PICK t \in H : t = HashPair(l, r)
      BY <2>6
    <3>2. IsCell(t) /\ t.left = l /\ t.right = r
      BY <3>1, Cells
    <3>3. proofs[g][t] = Beside(proofs[g - 1][t.left], proofs[g - 1][t.right], t.left, t.right)
      BY <1>2, <2>7, <3>2
    <3>4. QED  BY <3>1, <3>2, <3>3
  <2>9. /\ proofs[g - 1][l] = LeafList(lock, m, 2 * i - 1)
        /\ proofs[g - 1][r] = LeafList(lock, m, 2 * i)
    BY <1>4, <2>2, <2>4, <2>5, <2>7
  <2>10. i \in Nat \ {0}
    BY <2>3
  <2>11. Beside(LeafList(lock, n - 1, 2 * i - 1), LeafList(lock, n - 1, 2 * i), l, r)
           = LeafList(lock, n, i)
    BY <2>2, <2>4, <2>10, ListsBeside
  <2>12. QED  BY <2>1, <2>2, <2>5, <2>8, <2>9, <2>11
<1>5. Nat \subseteq K
  <2> HIDE DEF K
  <2>1. QED  BY <1>3, <1>4, Induction
<1>6. QED  BY <1>5

\* The chain's own proof of a branch is the one that the formula gives.
LEMMA ChainProves ==
  ASSUME NEW lock, IsLock(lock), NEW branch \in DOMAIN lock, NEW full
  PROVE  ChainProof(lock, branch, full) =
           [condition |-> lock[branch], axis |-> AxisOf(lock, branch), root |-> lock_root(lock),
            path |-> PathOf(lock, branch), full |-> full]
<1> DEFINE d == Depth(lock)
           root == lock_root(lock)
           tree == Levels(lock)[d][1]
<1>1. d \in 0 .. 4 /\ Len(lock) = TwoTo(d) /\ Len(lock) \in Nat
  <2>1. Len(lock) \in Nat
    BY DEF IsLock
  <2>2. QED  BY <2>1, DepthIs
<1>2. branch \in 1 .. Len(lock)
  BY DEF IsLock
<1>3. PICK proofs : IsProofs(proofs, Hashables(root)) /\ LeafProofs(root) = proofs[5][root]
  BY ProofsExist
<1>4. d \in 0 .. d /\ 1 \in 1 .. Len(lock) \div TwoTo(d)
  <2>1. Len(lock) \div Len(lock) = 1
    BY DEF IsLock
  <2>2. QED  BY <1>1, <2>1
<1>5. \A f \in d .. 5 : proofs[f][tree] = LeafList(lock, d, 1)
  BY <1>3, <1>4, NodesProve
<1>6. LeafList(lock, d, 1)[branch]
        = [axis |-> Len(lock) + (branch - 1), path |-> PathTo(lock, d, branch - 1)]
  <2>1. LeafList(lock, d, 1)[branch] = LeafProof(lock, d, 1, branch)
    BY <1>1, <1>2 DEF LeafList
  <2>2. (1 - 1) * Len(lock) + (branch - 1) = branch - 1
    BY <1>1, <1>2
  <2>3. QED  BY <1>1, <2>1, <2>2 DEF LeafProof
<1>7. CASE Len(lock) = 1
  <2>1. branch = 1 /\ d = 0 /\ root = tree
    <3>1. branch = 1
      BY <1>2, <1>7
    <3>2. d = 0
      <4>1. d = 0 \/ d = 1 \/ d = 2 \/ d = 3 \/ d = 4
        BY <1>1
      <4>2. TwoTo(d) = 1
        BY <1>1, <1>7
      <4>3. QED  BY <4>1, <4>2, PowersOfTwo
    <3>3. QED  BY <1>7, <3>1, <3>2 DEF lock_root
  <2>2. 5 \in d .. 5
    BY <1>1
  <2>3. ProveByIndex(root, branch) = [axis |-> 1, path |-> PathTo(lock, 0, 0)]
    <3>1. ProveByIndex(root, branch) = LeafList(lock, d, 1)[branch]
      BY <1>3, <1>5, <2>1, <2>2 DEF ProveByIndex
    <3>2. QED  BY <1>6, <1>7, <2>1, <3>1
  <2>4. PathTo(lock, 0, 0) = << >>
    BY DEF PathTo
  <2>5. AxisOf(lock, branch) = 1 /\ PathOf(lock, branch) = << >>
    BY <1>7 DEF AxisOf, PathOf
  <2>6. QED  BY <1>7, <2>3, <2>4, <2>5 DEF ChainProof
<1>8. CASE Len(lock) # 1
  <2>1. PICK tag : tag = hash_leaf_atom(Len(lock))
    OBVIOUS
  <2>2. root = HashPair(tag, tree)
    BY <1>8, <2>1 DEF lock_root
  <2>3. PICK row : /\ row = [i \in 0 .. 5 |-> Row(row, root, i)]
                   /\ Hashables(root) = UNION {row[i] : i \in 0 .. 5}
    BY RowsExist
  <2>4. root \in Hashables(root) /\ tag \in Hashables(root)
    <3>1. row[0] = {root}
      BY <2>3 DEF Row
    <3>2. tag \in row[1]
      <4>1. IsCell(root) /\ root.left = tag
        BY <2>2, Cells
      <4>2. row[1] = UNION {{t.left, t.right} : t \in {u \in row[0] : IsCell(u)}}
        BY <2>3 DEF Row
      <4>3. QED  BY <3>1, <4>1, <4>2
    <3>3. QED  BY <2>3, <3>1, <3>2
  <2>5. proofs[5][root] = Beside(proofs[4][tag], proofs[4][tree], tag, tree)
    <3>1. IsCell(root) /\ root.left = tag /\ root.right = tree
      BY <2>2, Cells
    <3>2. proofs[5] = [t \in Hashables(root) |->
                         IF 5 = 0 \/ ~IsCell(t) THEN LeafAlone
                         ELSE Beside(proofs[5 - 1][t.left], proofs[5 - 1][t.right],
                                     t.left, t.right)]
      BY <1>3 DEF IsProofs
    <3>3. QED  BY <2>4, <3>1, <3>2
  <2>6. proofs[4][tag] = LeafAlone
    <3>1. ~IsCell(tag)
      BY <2>1, Cells
    <3>2. proofs[4] = [t \in Hashables(root) |->
                         IF 4 = 0 \/ ~IsCell(t) THEN LeafAlone
                         ELSE Beside(proofs[4 - 1][t.left], proofs[4 - 1][t.right],
                                     t.left, t.right)]
      BY <1>3 DEF IsProofs
    <3>3. QED  BY <2>4, <3>1, <3>2
  <2>7. proofs[4][tree] = LeafList(lock, d, 1)
    BY <1>1, <1>5
  <2>8. Len(LeafAlone) = 1
    BY DEF LeafAlone
  <2>9. Len(LeafList(lock, d, 1)) = Len(lock)
    <3>1. PICK q : q = LeafList(lock, d, 1)
      OBVIOUS
    <3>2. q = [i \in 1 .. Len(lock) |-> q[i]]
      BY <1>1, <3>1 DEF LeafList
    <3>3. QED  BY <1>1, <3>1, <3>2, LenIs
  <2>10. branch + 1 \in 1 .. 1 + Len(lock) /\ ~(branch + 1 <= 1) /\ (branch + 1) - 1 = branch
    BY <1>1, <1>2
  <2>11. ProveByIndex(root, branch + 1) =
           [axis |-> Peg(3, Len(lock) + (branch - 1)),
            path |-> Append(PathTo(lock, d, branch - 1), tag)]
    <3>1. PICK p, q : p = LeafAlone /\ q = LeafList(lock, d, 1)
      OBVIOUS
    <3>2. Len(p) = 1 /\ Len(q) = Len(lock)
      BY <2>8, <2>9, <3>1
    <3>3. LeafProofs(root) = Beside(p, q, tag, tree)
      BY <1>3, <2>5, <2>6, <2>7, <3>1
    <3>4. Beside(p, q, tag, tree)[branch + 1] =
            [axis |-> Peg(3, q[branch].axis), path |-> Append(q[branch].path, tag)]
      BY <2>10, <3>2 DEF Beside
    <3>5. /\ q[branch].axis = Len(lock) + (branch - 1)
          /\ q[branch].path = PathTo(lock, d, branch - 1)
      BY <1>6, <3>1
    <3>6. ProveByIndex(root, branch + 1) = Beside(p, q, tag, tree)[branch + 1]
      BY <3>3 DEF ProveByIndex
    <3>7. QED  BY <3>4, <3>5, <3>6
  <2>12. Peg(3, Len(lock) + (branch - 1)) = AxisOf(lock, branch)
    <3>1. Len(lock) \in {1, 2, 4, 8, 16} /\ branch - 1 \in Nat /\ branch - 1 < Len(lock)
      BY <1>1, <1>2 DEF IsLock
    <3>2. QED  BY <1>8, <3>1, PegIs DEF AxisOf
  <2>13. Append(PathTo(lock, d, branch - 1), tag) = PathOf(lock, branch)
    BY <1>8, <2>1 DEF PathTo, PathOf
  <2>14. ProveByIndex(root, branch + 1)
           = [axis |-> AxisOf(lock, branch), path |-> PathOf(lock, branch)]
    BY <2>11, <2>12, <2>13
  <2>15. QED  BY <1>8, <2>14 DEF ChainProof
<1>9. QED  BY <1>7, <1>8

\* A place with the least number, of some.
LEMMA MinIsIn ==
  ASSUME NEW n \in Nat, NEW T \in SUBSET (1 .. n), T # {}
  PROVE  Min(T) \in T
<1>1. T \subseteq Nat
  OBVIOUS
<1>2. PICK x \in T : \A y \in T : x <= y
  BY <1>1, Least
<1>3. QED
  BY <1>2 DEF Min

-----------------------------------------------------------------------------
(* Proofs and rules *)

\* A list of what is given to the builder.
IsList(l) == DOMAIN l = 1 .. Len(l) /\ Len(l) \in Nat

\* What a proof climbs to does not depend on its form.
Climbs(condition, axis, path, root) ==
  LET left(k) == axis \div TwoTo(k)
      climb[k \in 0 .. Len(path)] ==
        IF k = 0 THEN ConditionHash(condition)
        ELSE IF left(k - 1) % 2 = 0 THEN HashPair(climb[k - 1], path[k])
        ELSE HashPair(path[k], climb[k - 1])
  IN left(Len(path)) = 1 /\ climb[Len(path)] = root

\* So for two proofs that differ in their form only.
LEMMA ClimbsAre ==
  ASSUME NEW p
  PROVE  verify_merk_proof(p) <=> Climbs(p.condition, p.axis, p.path, p.root)
BY Zenon DEF verify_merk_proof, Climbs

\* The proof of the chain is accepted in the form and at the pages where there is one,
\* if it climbs to the root; each rule then has its say.
LEMMA UnlocksBy ==
  ASSUME IsLock(spent.lock), NEW branch \in DOMAIN spent.lock, NEW full,
         NEW proof, proof = ChainProof(spent.lock, branch, full),
         NEW parts, NEW hax, NEW over,
         NEW at, NEW made, made = lock_merkle_proof(spent.lock, branch, at)
  PROVE  Unlocks(WitnessOf(proof, parts, hax), over) <=>
           /\ full => page >= Bythos
           /\ full \/ Len(spent.lock) = 1
           /\ verify_merk_proof(made)
           /\ \A i \in DOMAIN spent.lock[branch] :
                Holds(spent.lock[branch][i], WitnessOf(proof, parts, hax), over)
<1> DEFINE lock == spent.lock
<1>1. proof = [condition |-> lock[branch], axis |-> AxisOf(lock, branch),
               root |-> lock_root(lock), path |-> PathOf(lock, branch), full |-> full]
  BY ChainProves
<1>2. made = [condition |-> lock[branch], axis |-> AxisOf(lock, branch), root |-> lock_root(lock),
              path |-> PathOf(lock, branch), full |-> at >= Bythos]
  BY DEF lock_merkle_proof
<1>3. verify_merk_proof(proof) <=> verify_merk_proof(made)
  <2>1. /\ proof.condition = made.condition /\ proof.axis = made.axis
        /\ proof.root = made.root /\ proof.path = made.path
    BY <1>1, <1>2
  <2>2. QED  BY <2>1, ClimbsAre
<1>4. proof.axis = 1 <=> Len(lock) = 1
  <2>1. branch \in 1 .. Len(lock) /\ Len(lock) \in Nat
    BY DEF IsLock
  <2>2. proof.axis = IF Len(lock) = 1 THEN 1 ELSE 3 * Len(lock) + (branch - 1)
    BY <1>1 DEF AxisOf
  <2>3. QED  BY <2>1, <2>2
<1>5. PICK w : w = WitnessOf(proof, parts, hax)
  OBVIOUS
<1>6. w.proof = proof
  BY <1>5 DEF WitnessOf
<1>7. proof.full = full /\ proof.condition = lock[branch] /\ proof.root = lock_root(lock)
  BY <1>1
<1>8. Unlocks(w, over) <=>
        /\ proof.full => page >= Bythos
        /\ proof.full \/ proof.axis = 1
        /\ FirstName(proof.root) = FirstName(lock_root(lock))
        /\ verify_merk_proof(proof)
        /\ \A i \in DOMAIN proof.condition : Holds(proof.condition[i], w, over)
  BY <1>6, Zenon DEF Unlocks
<1>9. Unlocks(w, over) <=>
        /\ full => page >= Bythos
        /\ full \/ Len(lock) = 1
        /\ verify_merk_proof(made)
        /\ \A i \in DOMAIN lock[branch] : Holds(lock[branch][i], w, over)
  BY <1>3, <1>4, <1>7, <1>8, Zenon
<1>10. QED  BY <1>5, <1>9

\* What the witness has for a hash is the last of what is given for it.
LEMMA HaxOf ==
  ASSUME NEW proof, NEW parts, NEW hax, NEW hash, NEW w, w = WitnessOf(proof, parts, hax)
  PROVE  /\ hash \in DOMAIN w.hax <=> GivenFor(hax, hash) # {}
         /\ GivenFor(hax, hash) # {} => w.hax[hash] = hax[Max(GivenFor(hax, hash))].value
<1>1. w.hax = [h \in {hax[i].hash : i \in DOMAIN hax} |-> hax[Max(GivenFor(hax, h))].value]
  BY DEF WitnessOf
<1>2. hash \in {hax[i].hash : i \in DOMAIN hax} <=> GivenFor(hax, hash) # {}
  BY DEF GivenFor
<1>3. QED  BY <1>1, <1>2

\* What the builder has not refused of the preimages holds, unless one is spoilt.
LEMMA HaxHolds ==
  ASSUME NEW condition, NEW proof, NEW parts, NEW hax, NEW over,
         NEW w, w = WitnessOf(proof, parts, hax),
         ~Burns(condition), ~HaxRefused(condition, hax)
  PROVE  (\A i \in RulesOf(condition, "hax") : Holds(condition[i], w, over))
           <=> ~Spoilt(condition, hax)
<1>1. \A i \in RulesOf(condition, "hax") : \A h \in condition[i].hashes : GivenFor(hax, h) # {}
  BY DEF HaxRefused
<1>2. ASSUME NEW i \in RulesOf(condition, "hax")
      PROVE  Holds(condition[i], w, over) <=>
               \A h \in condition[i].hashes : hax[Max(GivenFor(hax, h))].value = h
  <2>1. condition[i].kind = "hax"
    BY DEF RulesOf
  <2>2. Holds(condition[i], w, over) <=>
          \A h \in condition[i].hashes : h \in DOMAIN w.hax /\ w.hax[h] = h
    BY <2>1 DEF Holds
  <2>3. \A h \in condition[i].hashes :
          h \in DOMAIN w.hax /\ w.hax[h] = hax[Max(GivenFor(hax, h))].value
    BY <1>1, HaxOf
  <2>4. QED  BY <2>2, <2>3
<1>3. Spoilt(condition, hax) <=>
        \E i \in RulesOf(condition, "hax") : \E h \in condition[i].hashes :
          GivenFor(hax, h) # {} /\ hax[Max(GivenFor(hax, h))].value # h
  BY DEF Spoilt
<1>4. QED  BY <1>1, <1>2, <1>3

\* What it refuses of them fails, if no hash is given twice.
LEMMA HaxFails ==
  ASSUME NEW condition, NEW proof, NEW parts, NEW hax, NEW over,
         NEW w, w = WitnessOf(proof, parts, hax), IsList(hax),
         IsInjective([i \in DOMAIN hax |-> hax[i].hash]), HaxRefused(condition, hax)
  PROVE  \E i \in DOMAIN condition : ~Holds(condition[i], w, over)
<1>1. PICK i \in RulesOf(condition, "hax") : \E h \in condition[i].hashes :
        GivenFor(hax, h) = {} \/ hax[Min(GivenFor(hax, h))].value # h
  BY DEF HaxRefused
<1> PICK h \in condition[i].hashes :
      GivenFor(hax, h) = {} \/ hax[Min(GivenFor(hax, h))].value # h
  BY <1>1
<1>2. i \in DOMAIN condition /\ condition[i].kind = "hax"
  BY DEF RulesOf
<1>3. ASSUME h \in DOMAIN w.hax, w.hax[h] = h PROVE FALSE
  <2>1. GivenFor(hax, h) # {} /\ hax[Max(GivenFor(hax, h))].value = h
    BY <1>3, HaxOf
  <2>2. GivenFor(hax, h) \in SUBSET (1 .. Len(hax)) /\ Len(hax) \in Nat
    BY DEF GivenFor, IsList
  <2>3. Min(GivenFor(hax, h)) \in GivenFor(hax, h) /\ Max(GivenFor(hax, h)) \in GivenFor(hax, h)
    BY <2>1, <2>2, MinIsIn, MaxIsIn
  <2>4. \A j, k \in GivenFor(hax, h) : j = k
    BY DEF GivenFor, IsInjective
  <2>5. Min(GivenFor(hax, h)) = Max(GivenFor(hax, h))
    BY <2>3, <2>4
  <2>6. QED  BY <1>1, <2>1, <2>5
<1>4. ~Holds(condition[i], w, over)
  BY <1>2, <1>3 DEF Holds
<1>5. QED  BY <1>2, <1>4

\* A list without a key twice has as many keys as places.
LEMMA KeysCounted ==
  ASSUME NEW parts, IsList(parts), IsInjective([i \in DOMAIN parts |-> parts[i].key])
  PROVE  Cardinality({parts[i].key : i \in DOMAIN parts}) = Len(parts)
<1> DEFINE S == {parts[i].key : i \in DOMAIN parts}
           f == [i \in 1 .. Len(parts) |-> parts[i].key]
<1>1. f \in Bijection(1 .. Len(parts), S)
  <2>1. f \in [1 .. Len(parts) -> S]
    BY DEF IsList
  <2>2. \A a, b \in 1 .. Len(parts) : f[a] = f[b] => a = b
    BY DEF IsList, IsInjective
  <2>3. \A t \in S : \E s \in 1 .. Len(parts) : f[s] = t
    BY DEF IsList
  <2>4. QED  BY <2>1, <2>2, <2>3 DEF Bijection, Injection, Surjection
<1>2. IsFiniteSet(1 .. Len(parts)) /\ Cardinality(1 .. Len(parts)) = Len(parts)
  <2>1. Len(parts) \in Nat /\ Len(parts) \in Int /\ 1 \in Int
    BY DEF IsList
  <2>2. /\ IsFiniteSet(1 .. Len(parts))
        /\ Cardinality(1 .. Len(parts)) = IF 1 > Len(parts) THEN 0 ELSE Len(parts) - 1 + 1
    BY <2>1, FS_Interval
  <2>3. QED  BY <2>1, <2>2
<1>3. ExistsBijection(1 .. Len(parts), S)
  BY <1>1 DEF ExistsBijection
<1>4. QED  BY <1>2, <1>3, FS_Bijection

\* The signatures of a witness: of each signer the last.
LEMMA SignedBy ==
  ASSUME NEW proof, NEW parts, NEW hax, NEW w, w = WitnessOf(proof, parts, hax), IsList(parts),
         IsInjective([i \in DOMAIN parts |-> parts[i].key])
  PROVE  /\ DOMAIN w.pkh = {parts[i].key : i \in DOMAIN parts}
         /\ Cardinality(DOMAIN w.pkh) = Len(parts)
         /\ \A i \in DOMAIN parts : w.pkh[parts[i].key] = parts[i].over
<1>1. w.pkh = [key \in {parts[i].key : i \in DOMAIN parts} |->
                 parts[Max({i \in DOMAIN parts : parts[i].key = key})].over]
  BY DEF WitnessOf
<1>2. DOMAIN w.pkh = {parts[i].key : i \in DOMAIN parts}
  BY <1>1
<1>3. ASSUME NEW i \in DOMAIN parts PROVE w.pkh[parts[i].key] = parts[i].over
  <2> DEFINE T == {j \in DOMAIN parts : parts[j].key = parts[i].key}
  <2>1. w.pkh[parts[i].key] = parts[Max(T)].over
    BY <1>1
  <2>2. T = {i}
    BY DEF IsInjective
  <2>3. T \in SUBSET (1 .. Len(parts)) /\ Len(parts) \in Nat /\ T # {}
    BY <2>2 DEF IsList
  <2> HIDE DEF T
  <2>4. Max(T) \in T
    BY <2>3, MaxIsIn
  <2>5. QED  BY <2>1, <2>2, <2>4
<1>4. QED  BY <1>2, <1>3, KeysCounted

\* A rule of keys holds of what the builder has not refused.
LEMMA PkhHolds ==
  ASSUME NEW condition, IsCondition(condition), NEW proof, NEW parts, IsList(parts), NEW hax,
         NEW over, NEW w, w = WitnessOf(proof, parts, hax),
         ~PartsRefused(condition, parts, over)
  PROVE  \A i \in RulesOf(condition, "pkh") : Holds(condition[i], w, over)
<1> SUFFICES ASSUME NEW i \in RulesOf(condition, "pkh")
             PROVE  Holds(condition[i], w, over)
  OBVIOUS
<1>1. i \in DOMAIN condition /\ condition[i].kind = "pkh"
  BY DEF RulesOf
<1>2. RulesOf(condition, "pkh") = {i}
  BY <1>1 DEF RulesOf, IsCondition
<1>3. RulesOf(condition, "pkh") \in SUBSET (1 .. Len(condition)) /\ Len(condition) \in Nat
  BY DEF RulesOf, IsCondition
<1>4. Min(RulesOf(condition, "pkh")) \in RulesOf(condition, "pkh")
  BY <1>2, <1>3, MinIsIn
<1>5. condition[Min(RulesOf(condition, "pkh"))] = condition[i]
  BY <1>2, <1>4
<1>6. /\ Len(parts) = condition[i].m
      /\ \A j \in DOMAIN parts : parts[j].key \in condition[i].keys /\ parts[j].over = over
      /\ IsInjective([j \in DOMAIN parts |-> parts[j].key])
  BY <1>2, <1>5 DEF PartsRefused
<1>7. /\ DOMAIN w.pkh = {parts[j].key : j \in DOMAIN parts}
      /\ Cardinality(DOMAIN w.pkh) = Len(parts)
      /\ \A j \in DOMAIN parts : w.pkh[parts[j].key] = parts[j].over
  BY <1>6, SignedBy
<1>8. DOMAIN w.pkh \subseteq condition[i].keys /\ \A key \in DOMAIN w.pkh : w.pkh[key] = over
  BY <1>6, <1>7
<1>9. QED  BY <1>1, <1>6, <1>7, <1>8 DEF Holds

\* And fails of what it has refused, if no signer is given twice.
LEMMA PkhFails ==
  ASSUME NEW condition, IsCondition(condition), NEW proof, NEW parts, IsList(parts), NEW hax,
         NEW over, NEW w, w = WitnessOf(proof, parts, hax),
         PartsRefused(condition, parts, over), RulesOf(condition, "pkh") # {},
         IsInjective([j \in DOMAIN parts |-> parts[j].key])
  PROVE  \E i \in DOMAIN condition : ~Holds(condition[i], w, over)
<1>1. RulesOf(condition, "pkh") \in SUBSET (1 .. Len(condition)) /\ Len(condition) \in Nat
  BY DEF RulesOf, IsCondition
<1>2. PICK i : i = Min(RulesOf(condition, "pkh"))
  OBVIOUS
<1>3. i \in RulesOf(condition, "pkh")
  BY <1>1, <1>2, MinIsIn
<1>4. i \in DOMAIN condition /\ condition[i].kind = "pkh"
  BY <1>3 DEF RulesOf
<1>5. \/ Len(parts) # condition[i].m
      \/ \E j \in DOMAIN parts : parts[j].key \notin condition[i].keys \/ parts[j].over # over
  BY <1>2 DEF PartsRefused
<1>6. /\ DOMAIN w.pkh = {parts[j].key : j \in DOMAIN parts}
      /\ Cardinality(DOMAIN w.pkh) = Len(parts)
      /\ \A j \in DOMAIN parts : w.pkh[parts[j].key] = parts[j].over
  BY SignedBy
<1>7. Holds(condition[i], w, over) <=>
        /\ Cardinality(DOMAIN w.pkh) = condition[i].m
        /\ DOMAIN w.pkh \subseteq condition[i].keys
        /\ \A key \in DOMAIN w.pkh : w.pkh[key] = over
  BY <1>4 DEF Holds
<1>8. ~Holds(condition[i], w, over)
  BY <1>5, <1>6, <1>7
<1>9. QED  BY <1>4, <1>8

\* What the builder has not refused holds but for burns, windows and what is spoilt.
LEMMA RulesHold ==
  ASSUME NEW condition, IsCondition(condition), NEW proof, NEW parts, IsList(parts), NEW hax,
         NEW over, NEW w, w = WitnessOf(proof, parts, hax),
         ~PartsRefused(condition, parts, over), ~HaxRefused(condition, hax)
  PROVE  (\A i \in DOMAIN condition : Holds(condition[i], w, over)) <=>
           ~Burns(condition) /\ InWindow(condition) /\ ~Spoilt(condition, hax)
<1>1. \A i \in DOMAIN condition :
        /\ condition[i].kind \in {"brn", "tim", "hax", "pkh"}
        /\ condition[i].kind = "brn" => ~Holds(condition[i], w, over)
        /\ condition[i].kind = "tim" => (Holds(condition[i], w, over) <=> TimHolds(condition[i]))
  <2> TAKE i \in DOMAIN condition
  <2>1. condition[i].kind \in {"brn", "tim", "hax", "pkh"}
    BY DEF IsCondition
  <2>2. condition[i].kind = "brn" => ~Holds(condition[i], w, over)
    BY DEF Holds
  <2>3. condition[i].kind = "tim" => (Holds(condition[i], w, over) <=> TimHolds(condition[i]))
    BY DEF Holds
  <2>4. QED  BY <2>1, <2>2, <2>3
<1>2. \A i \in RulesOf(condition, "pkh") : Holds(condition[i], w, over)
  BY PkhHolds
<1>3. CASE Burns(condition)
  <2>1. PICK i \in DOMAIN condition : condition[i].kind = "brn"
    BY <1>3 DEF Burns, RulesOf
  <2>2. QED  BY <1>1, <1>3, <2>1
<1>4. CASE ~Burns(condition)
  <2>1. \A i \in DOMAIN condition : condition[i].kind # "brn"
    BY <1>4 DEF Burns, RulesOf
  <2>2. (\A i \in RulesOf(condition, "hax") : Holds(condition[i], w, over))
          <=> ~Spoilt(condition, hax)
    BY <1>4, HaxHolds
  <2>3. \A i \in DOMAIN condition :
          \A kind : i \in RulesOf(condition, kind) <=> condition[i].kind = kind
    BY DEF RulesOf
  <2>4. \A kind : RulesOf(condition, kind) \subseteq DOMAIN condition
    BY DEF RulesOf
  <2>5. InWindow(condition) <=>
          \A i \in DOMAIN condition : condition[i].kind = "tim" => Holds(condition[i], w, over)
    BY <1>1 DEF InWindow
  <2>6. QED  BY <1>1, <1>2, <1>4, <2>1, <2>2, <2>3, <2>4, <2>5
<1>5. QED  BY <1>3, <1>4

\* The root of a lock of one branch is no pair.
LEMMA RootAlone ==
  ASSUME NEW lock, IsLock(lock)
  PROVE  /\ Len(lock) = 1 => Depth(lock) = 0 /\ lock_root(lock) = ConditionHash(lock[1])
         /\ Len(lock) # 1 => IsCell(lock_root(lock))
<1>1. Depth(lock) \in 0 .. 4 /\ Len(lock) = TwoTo(Depth(lock))
  BY DepthIs
<1>2. CASE Len(lock) = 1
  <2>1. Depth(lock) = 0
    <3>1. PICK d \in 0 .. 4 : d = Depth(lock) /\ Len(lock) = TwoTo(d)
      BY <1>1
    <3>2. d = 0 \/ d = 1 \/ d = 2 \/ d = 3 \/ d = 4
      OBVIOUS
    <3>3. TwoTo(d) = 1
      BY <1>2, <3>1
    <3>4. QED  BY <3>1, <3>2, <3>3, PowersOfTwo
  <2>2. 0 \in 0 .. Depth(lock) /\ 1 \in 1 .. Len(lock) \div TwoTo(0)
    BY <1>2, <2>1, PowersOfTwo
  <2>3. Levels(lock)[0][1] = ConditionHash(lock[1])
    BY <2>2, LevelIs
  <2>4. QED  BY <1>2, <2>1, <2>3 DEF lock_root
<1>3. CASE Len(lock) # 1
  BY <1>3, Cells DEF lock_root
<1>4. QED  BY <1>2, <1>3

\* The proof of a branch that is alone climbs nowhere.
LEMMA AloneIsProven ==
  ASSUME NEW lock, IsLock(lock), Len(lock) = 1, NEW at
  PROVE  verify_merk_proof(lock_merkle_proof(lock, 1, at))
<1>1. PICK p : p = lock_merkle_proof(lock, 1, at)
  OBVIOUS
<1>2. /\ p.condition = lock[1] /\ p.axis = 1 /\ p.path = << >>
      /\ p.root = ConditionHash(lock[1])
  BY <1>1, RootAlone DEF lock_merkle_proof, AxisOf, PathOf
<1> DEFINE c == ConditionHash(lock[1])
           Eq(F) == [k \in 0 .. 0 |->
                       IF k = 0 THEN c
                       ELSE IF (1 \div TwoTo(k - 1)) % 2 = 0 THEN HashPair(F[k - 1], << >>[k])
                       ELSE HashPair(<< >>[k], F[k - 1])]
           climb == CHOOSE F : F = Eq(F)
<1>3. Climbs(lock[1], 1, << >>, c) <=> 1 \div TwoTo(0) = 1 /\ climb[0] = c
  BY DEF Climbs
<1>4. [k \in 0 .. 0 |-> c] = Eq([k \in 0 .. 0 |-> c])
  OBVIOUS
<1>5. \A F : F = Eq(F) => F[0] = c
  OBVIOUS
<1> HIDE DEF Eq
<1>6. climb = Eq(climb)
  BY <1>4, Zenon
<1> HIDE DEF climb
<1>7. climb[0] = c
  BY <1>5, <1>6
<1>8. 1 \div TwoTo(0) = 1
  BY PowersOfTwo
<1>9. Climbs(p.condition, p.axis, p.path, p.root)
  BY <1>2, <1>3, <1>7, <1>8
<1>10. QED  BY <1>1, <1>9, ClimbsAre

-----------------------------------------------------------------------------
(* Attempts *)

\* What build_branch_witness_from_parts leaves, called at a page.
BranchTried(branch, parts, hax, at, over) ==
  LET refused == BranchRefused(spent.lock, branch, at, parts, over, hax) IN
    [kind |-> "branch", branch |-> branch, at |-> at, parts |-> parts, hax |-> hax,
     over |-> over, refused |-> refused,
     witness |-> IF refused THEN << >>
                 ELSE WitnessOf(lock_merkle_proof(spent.lock, branch, at), parts, hax)]

\* What build_witness leaves, called at a page.
SingleTried(key, coinbase, at, over) ==
  LET lock == <<AssumedCondition(key, coinbase)>>
      parts == <<[key |-> key, over |-> over]>>
      refused == FirstName(lock_root(lock)) # FirstName(lock_root(spent.lock))
      proof == [condition |-> lock[1], axis |-> 1, root |-> lock_root(lock),
                path |-> << >>, full |-> TRUE]
  IN [kind |-> "single", branch |-> 1, at |-> at, parts |-> parts, hax |-> << >>,
      over |-> over, refused |-> refused,
      witness |-> IF refused THEN << >> ELSE WitnessOf(proof, parts, << >>)]

\* An attempt is one of the two builders', at some earlier page.
TriedAt(at, over) ==
  \/ \E branch \in 0 .. Len(spent.lock), hax \in Preimages : \E parts :
       IsList(parts) /\ attempt = BranchTried(branch, parts, hax, at, over)
  \/ \E key, coinbase : attempt = SingleTried(key, coinbase, at, over)

\* The attempt that stands was made at this page or before.
Tried == \E at \in Nat : \E over : at <= page /\ TriedAt(at, over)

\* The invariant: what is tried is what a builder made of the note that is held.
WitnessInv ==
  /\ page \in Nat /\ spent \in LockedNotes
  /\ attempt # NoAttempt => Tried

\* The lock of the note is one of those assumed.
LEMMA SpentLock ==
  ASSUME spent \in LockedNotes
  PROVE  /\ IsLock(spent.lock)
         /\ \A branch \in DOMAIN spent.lock : IsCondition(spent.lock[branch])
BY SpendsAssumption DEF IsLock

\* What was tried stays tried while the note is the same and no page is taken back.
LEMMA TriedStays ==
  ASSUME page \in Nat, page' \in Nat, page <= page', spent' = spent, attempt' = attempt, Tried
  PROVE  Tried'
<1>1. PICK at, over : at \in Nat /\ at <= page /\ TriedAt(at, over)
  BY DEF Tried
<1>2. TriedAt(at, over)'
  BY <1>1 DEF TriedAt, BranchTried, SingleTried
<1>3. at <= page'
  BY <1>1
<1>4. QED  BY <1>1, <1>2, <1>3 DEF Tried

\* Nothing is tried at first.
LEMMA WitnessInitially == SpendsInit => WitnessInv
BY SpendsAssumption DEF SpendsInit, WitnessInv

\* A step tries one thing more, or lets the note, its draft and the page go on.
LEMMA WitnessNext == WitnessInv /\ [SpendsNext]_spendVars => WitnessInv'
<1> SUFFICES ASSUME WitnessInv, [SpendsNext]_spendVars PROVE WitnessInv'
  OBVIOUS
<1>1. CASE NextPage
  <2>1. /\ page' \in Nat /\ page <= page' /\ page \in Nat
        /\ spent' = spent /\ attempt' = attempt
    BY <1>1 DEF NextPage, WitnessInv
  <2>2. QED  BY <2>1, TriedStays DEF WitnessInv
<1>2. ASSUME NEW seeds \in WantedSeeds, Price(seeds) PROVE WitnessInv'
  BY <1>2 DEF Price, WitnessInv
<1>3. CASE AskSigHash
  BY <1>3 DEF AskSigHash, WitnessInv
<1>4. ASSUME NEW branch \in 0 .. Len(spent.lock), NEW parts \in SeqOf(Cosignatures, 2),
             NEW hax \in Preimages, BuildBranchWitness(branch, parts, hax)
      PROVE  WitnessInv'
  <2>1. IsList(parts)
    <3>1. PICK m \in 0 .. 2 : parts \in [1 .. m -> Cosignatures]
      BY DEF SeqOf
    <3>2. m \in Nat /\ parts = [i \in 1 .. m |-> parts[i]] /\ DOMAIN parts = 1 .. m
      BY <3>1
    <3>3. Len(parts) = m
      BY <3>2, LenIs
    <3>4. QED  BY <3>2, <3>3 DEF IsList
  <2>2. page \in Nat /\ page <= page /\ spent \in LockedNotes
    BY DEF WitnessInv
  <2>3. page' = page /\ spent' = spent
    BY <1>4 DEF BuildBranchWitness
  <2>4. attempt' = BranchTried(branch, parts, hax, page, digest)'
    BY <1>4 DEF BuildBranchWitness, BranchTried
  <2>5. QED  BY <2>1, <2>2, <2>3, <2>4 DEF WitnessInv, Tried, TriedAt
<1>5. ASSUME NEW key \in SpendKeys, NEW coinbase \in BOOLEAN, BuildWitness(key, coinbase)
      PROVE  WitnessInv'
  <2>1. page \in Nat /\ page <= page /\ spent \in LockedNotes
    BY DEF WitnessInv
  <2>2. page' = page /\ spent' = spent
    BY <1>5 DEF BuildWitness
  <2>3. attempt' = SingleTried(key, coinbase, page, digest)'
    BY <1>5 DEF BuildWitness, SingleTried
  <2>4. QED  BY <2>1, <2>2, <2>3 DEF WitnessInv, Tried, TriedAt
<1>6. CASE UNCHANGED spendVars
  <2>1. /\ page \in Nat /\ page' = page /\ page <= page'
        /\ spent' = spent /\ attempt' = attempt
    BY <1>6 DEF spendVars, WitnessInv
  <2>2. QED  BY <2>1, TriedStays DEF WitnessInv
<1>7. QED  BY <1>1, <1>2, <1>3, <1>4, <1>5, <1>6 DEF SpendsNext

\* A witness that is built of parts has the proof of the chain, and does what it should.
LEMMA BranchStands ==
  ASSUME WitnessInv, NEW at \in Nat, at <= page, NEW over, NEW branch \in 0 .. Len(spent.lock),
         NEW hax \in Preimages, NEW parts, IsList(parts),
         ~BranchRefused(spent.lock, branch, at, parts, over, hax),
         NEW proof, proof = lock_merkle_proof(spent.lock, branch, at)
  PROVE  /\ proof = ChainProof(spent.lock, branch, proof.full)
         /\ Unlocks(WitnessOf(proof, parts, hax), over) <=>
              /\ ~Burns(proof.condition) /\ InWindow(proof.condition)
              /\ ~Spoilt(proof.condition, hax)
<1>1. IsLock(spent.lock) /\ \A b \in DOMAIN spent.lock : IsCondition(spent.lock[b])
  BY SpentLock DEF WitnessInv
<1>2. /\ branch \in DOMAIN spent.lock /\ ~(Len(spent.lock) > 1 /\ at < Bythos)
      /\ verify_merk_proof(proof)
      /\ ~PartsRefused(spent.lock[branch], parts, over) /\ ~HaxRefused(spent.lock[branch], hax)
  BY DEF BranchRefused, ProofRefused
<1>3. PICK full : full = (at >= Bythos)
  OBVIOUS
<1>4. proof.full = full /\ proof.condition = spent.lock[branch]
  BY <1>3 DEF lock_merkle_proof
<1>5. proof = ChainProof(spent.lock, branch, full)
  BY <1>1, <1>2, <1>3, ChainProves DEF lock_merkle_proof
<1>6. Unlocks(WitnessOf(proof, parts, hax), over) <=>
           /\ full => page >= Bythos
           /\ full \/ Len(spent.lock) = 1
           /\ verify_merk_proof(proof)
           /\ \A i \in DOMAIN spent.lock[branch] :
                Holds(spent.lock[branch][i], WitnessOf(proof, parts, hax), over)
  BY <1>1, <1>2, <1>5, UnlocksBy
<1>7. (full => page >= Bythos) /\ (full \/ Len(spent.lock) = 1)
  <2>1. page \in Nat /\ Bythos \in Nat
    BY SpendsAssumption DEF WitnessInv
  <2>2. PICK n \in {1, 2, 4, 8, 16} : n = Len(spent.lock)
    BY <1>1 DEF IsLock
  <2>3. n > 1 \/ n = 1
    OBVIOUS
  <2>4. ~(n > 1 /\ at < Bythos)
    BY <1>2, <2>2
  <2>5. (at >= Bythos => page >= Bythos) /\ (at >= Bythos \/ n = 1)
    BY <2>1, <2>3, <2>4
  <2>6. QED  BY <1>3, <2>2, <2>5, Zenon
<1>8. (\A i \in DOMAIN spent.lock[branch] :
         Holds(spent.lock[branch][i], WitnessOf(proof, parts, hax), over)) <=>
        /\ ~Burns(spent.lock[branch]) /\ InWindow(spent.lock[branch])
        /\ ~Spoilt(spent.lock[branch], hax)
  BY <1>1, <1>2, RulesHold
<1>9. QED  BY <1>2, <1>4, <1>5, <1>6, <1>7, <1>8

\* And so does that of the holder of one key.
LEMMA SingleStands ==
  ASSUME WitnessInv, NEW key, NEW coinbase, NEW over,
         NEW lock, lock = <<AssumedCondition(key, coinbase)>>,
         FirstName(lock_root(lock)) = FirstName(lock_root(spent.lock)),
         NEW parts, parts = <<[key |-> key, over |-> over]>>,
         NEW proof, proof = [condition |-> lock[1], axis |-> 1, root |-> lock_root(lock),
                             path |-> << >>, full |-> TRUE]
  PROVE  /\ proof = ChainProof(spent.lock, 1, proof.full)
         /\ Unlocks(WitnessOf(proof, parts, << >>), over) <=>
              /\ ~Burns(proof.condition) /\ InWindow(proof.condition)
              /\ ~Spoilt(proof.condition, << >>) /\ page >= Bythos
<1>1. IsLock(spent.lock) /\ \A b \in DOMAIN spent.lock : IsCondition(spent.lock[b])
  BY SpentLock DEF WitnessInv
<1>2. IsLock(lock) /\ Len(lock) = 1
  BY DEF IsLock
<1>3. lock_root(lock) = lock_root(spent.lock) /\ lock_root(lock) = ConditionHash(lock[1])
  BY <1>2, RootAlone DEF FirstName
<1>4. Len(spent.lock) = 1 /\ spent.lock[1] = lock[1] /\ 1 \in DOMAIN spent.lock
  <2>1. Len(spent.lock) = 1
    <3>1. ~IsCell(lock_root(spent.lock))
      BY <1>3, Cells
    <3>2. QED  BY <1>1, <3>1, RootAlone
  <2>2. ConditionHash(spent.lock[1]) = ConditionHash(lock[1])
    BY <1>1, <1>3, <2>1, RootAlone
  <2>3. QED  BY <1>1, <2>1, <2>2 DEF ConditionHash, IsLock
<1>5. proof = ChainProof(spent.lock, 1, TRUE)
  <2>1. AxisOf(spent.lock, 1) = 1 /\ PathOf(spent.lock, 1) = << >>
    BY <1>4 DEF AxisOf, PathOf
  <2>2. ChainProof(spent.lock, 1, TRUE) =
          [condition |-> spent.lock[1], axis |-> AxisOf(spent.lock, 1),
           root |-> lock_root(spent.lock), path |-> PathOf(spent.lock, 1), full |-> TRUE]
    BY <1>1, <1>4, ChainProves
  <2>3. QED  BY <1>3, <1>4, <2>1, <2>2
<1>6. verify_merk_proof(lock_merkle_proof(spent.lock, 1, page))
  BY <1>1, <1>4, AloneIsProven
<1>7. Unlocks(WitnessOf(proof, parts, << >>), over) <=>
           /\ page >= Bythos
           /\ \A i \in DOMAIN spent.lock[1] :
                Holds(spent.lock[1][i], WitnessOf(proof, parts, << >>), over)
  <2>1. PICK b, made, hax :
          b = 1 /\ made = lock_merkle_proof(spent.lock, b, page) /\ hax = << >>
    OBVIOUS
  <2>2. verify_merk_proof(made)
    BY <1>6, <2>1
  <2>3. PICK full : full = TRUE
    OBVIOUS
  <2>4. proof = ChainProof(spent.lock, b, full) /\ b \in DOMAIN spent.lock
    BY <1>4, <1>5, <2>1, <2>3
  <2>5. Unlocks(WitnessOf(proof, parts, hax), over) <=>
           /\ full => page >= Bythos
           /\ full \/ Len(spent.lock) = 1
           /\ verify_merk_proof(made)
           /\ \A i \in DOMAIN spent.lock[b] :
                Holds(spent.lock[b][i], WitnessOf(proof, parts, hax), over)
    BY ONLY <1>1, <2>1, <2>4, UnlocksBy
  <2>6. QED  BY <2>1, <2>2, <2>3, <2>5
<1>8. PICK c : c = spent.lock[1]
  OBVIOUS
<1>9. IsCondition(c) /\ c = AssumedCondition(key, coinbase)
  BY <1>1, <1>4, <1>8
<1>10. /\ IsList(parts) /\ Len(parts) = 1 /\ DOMAIN parts = {1}
       /\ parts[1] = [key |-> key, over |-> over]
  BY DEF IsList
<1>11. c[1] = Pkh(key) /\ 1 \in DOMAIN c /\ \A i \in DOMAIN c : i = 1 \/ c[i].kind = "tim"
  BY <1>9 DEF AssumedCondition
<1>12. RulesOf(c, "pkh") = {1} /\ RulesOf(c, "hax") = {}
  BY <1>11 DEF RulesOf, Pkh
<1>13. ~PartsRefused(c, parts, over)
  <2>1. {1} \in SUBSET (1 .. 1) /\ {1} # {} /\ 1 \in Nat
    OBVIOUS
  <2>2. Min({1}) = 1
    BY <2>1, MinIsIn
  <2>3. c[1].m = 1 /\ c[1].keys = {key}
    BY <1>11 DEF Pkh
  <2>4. IsInjective([i \in DOMAIN parts |-> parts[i].key])
    BY <1>10 DEF IsInjective
  <2>5. PartsRefused(c, parts, over) <=>
          \/ Len(parts) # c[1].m
          \/ \E i \in DOMAIN parts : parts[i].key \notin c[1].keys \/ parts[i].over # over
          \/ ~IsInjective([i \in DOMAIN parts |-> parts[i].key])
    BY <1>12, <2>1, <2>2 DEF PartsRefused
  <2>6. parts[1].key = key /\ parts[1].over = over
    BY <1>10
  <2>7. QED  BY <1>10, <2>3, <2>4, <2>5, <2>6
<1>14. ~HaxRefused(c, << >>)
  BY <1>12 DEF HaxRefused
<1>15. (\A i \in DOMAIN c : Holds(c[i], WitnessOf(proof, parts, << >>), over)) <=>
         ~Burns(c) /\ InWindow(c) /\ ~Spoilt(c, << >>)
  BY <1>9, <1>10, <1>13, <1>14, RulesHold
<1>16. proof.full = TRUE /\ proof.condition = c
  BY <1>4, <1>8
<1>17. QED  BY <1>5, <1>7, <1>8, <1>15, <1>16

\* What is refused, though nothing is given twice or unasked, does not unlock.
LEMMA BranchSaves ==
  ASSUME WitnessInv, NEW over, NEW branch \in DOMAIN spent.lock,
         NEW hax \in Preimages, NEW parts, IsList(parts),
         BranchRefused(spent.lock, branch, page, parts, over, hax),
         ~(RulesOf(spent.lock[branch], "pkh") = {} /\ parts # << >>),
         IsInjective([i \in DOMAIN parts |-> parts[i].key]),
         IsInjective([i \in DOMAIN hax |-> hax[i].hash]),
         NEW full \in BOOLEAN
  PROVE  ~Unlocks(WitnessOf(ChainProof(spent.lock, branch, full), parts, hax), over)
<1>1. IsLock(spent.lock) /\ \A b \in DOMAIN spent.lock : IsCondition(spent.lock[b])
  BY SpentLock DEF WitnessInv
<1>2. PICK proof, w, made, c :
        /\ proof = ChainProof(spent.lock, branch, full) /\ w = WitnessOf(proof, parts, hax)
        /\ made = lock_merkle_proof(spent.lock, branch, page) /\ c = spent.lock[branch]
  OBVIOUS
<1>3. Unlocks(w, over) <=>
           /\ full => page >= Bythos
           /\ full \/ Len(spent.lock) = 1
           /\ verify_merk_proof(made)
           /\ \A i \in DOMAIN c : Holds(c[i], w, over)
  BY <1>1, <1>2, UnlocksBy
<1>4. \/ Len(spent.lock) > 1 /\ page < Bythos
      \/ ~verify_merk_proof(made)
      \/ PartsRefused(c, parts, over)
      \/ HaxRefused(c, hax)
  BY <1>2 DEF BranchRefused, ProofRefused
<1>5. CASE Len(spent.lock) > 1 /\ page < Bythos
  <2>1. page \in Nat /\ Bythos \in Nat /\ Len(spent.lock) \in Nat
    BY <1>1, SpendsAssumption DEF WitnessInv, IsLock
  <2>2. PICK n \in Nat : n = Len(spent.lock)
    BY <2>1
  <2>3. ~(page >= Bythos)
    BY <1>5, <2>1
  <2>4. n # 1
    <3>1. n > 1 /\ n \in Nat
      BY <1>5, <2>2, Zenon
    <3>2. QED  BY ONLY <3>1
  <2>5. QED  BY <1>2, <1>3, <2>2, <2>3, <2>4, Zenon
<1>6. CASE ~verify_merk_proof(made)
  BY <1>2, <1>3, <1>6
<1>7. CASE PartsRefused(c, parts, over)
  <2>1. RulesOf(c, "pkh") # {}
    BY <1>2, <1>7 DEF PartsRefused
  <2>2. \E i \in DOMAIN c : ~Holds(c[i], w, over)
    BY <1>1, <1>2, <1>7, <2>1, PkhFails
  <2>3. QED  BY <1>2, <1>3, <2>2
<1>8. CASE HaxRefused(c, hax)
  <2>1. IsList(hax)
    BY SpendsAssumption DEF IsList
  <2>2. \E i \in DOMAIN c : ~Holds(c[i], w, over)
    BY <1>2, <1>8, <2>1, HaxFails
  <2>3. QED  BY <1>2, <1>3, <2>2
<1>9. QED  BY <1>4, <1>5, <1>6, <1>7, <1>8

\* So the builder decides as consensus will.
LEMMA WitnessInvDecides == WitnessInv => WitnessesDecide
<1> SUFFICES ASSUME WitnessInv PROVE WitnessStands /\ RefusalsSave
  BY DEF WitnessesDecide
<1>1. WitnessStands
  <2> SUFFICES ASSUME SentAsSigned, ~attempt.refused
               PROVE  LET proof == attempt.witness.proof IN
                        /\ proof = ChainProof(spent.lock, attempt.branch, proof.full)
                        /\ Unlocks(attempt.witness, SigHashOf(draft)) <=>
                             /\ ~Burns(proof.condition) /\ InWindow(proof.condition)
                             /\ ~Spoilt(proof.condition, attempt.hax)
                             /\ attempt.kind = "single" => page >= Bythos
    BY DEF WitnessStands
  <2>1. attempt.over = SigHashOf(draft) /\ Tried
    BY DEF SentAsSigned, WitnessInv
  <2>2. PICK at, over : at \in Nat /\ at <= page /\ TriedAt(at, over)
    BY <2>1 DEF Tried
  <2>3. ASSUME NEW branch \in 0 .. Len(spent.lock), NEW hax \in Preimages, NEW parts,
               IsList(parts), attempt = BranchTried(branch, parts, hax, at, over)
        PROVE  LET proof == attempt.witness.proof IN
                 /\ proof = ChainProof(spent.lock, attempt.branch, proof.full)
                 /\ Unlocks(attempt.witness, SigHashOf(draft)) <=>
                      /\ ~Burns(proof.condition) /\ InWindow(proof.condition)
                      /\ ~Spoilt(proof.condition, attempt.hax)
                      /\ attempt.kind = "single" => page >= Bythos
    <3>1. PICK proof : proof = lock_merkle_proof(spent.lock, branch, at)
      OBVIOUS
    <3>2. /\ attempt.kind = "branch" /\ attempt.branch = branch /\ attempt.hax = hax
          /\ attempt.over = over
          /\ attempt.refused = BranchRefused(spent.lock, branch, at, parts, over, hax)
          /\ ~BranchRefused(spent.lock, branch, at, parts, over, hax)
               => attempt.witness = WitnessOf(proof, parts, hax)
      BY <2>3, <3>1 DEF BranchTried
    <3>3. /\ ~BranchRefused(spent.lock, branch, at, parts, over, hax)
          /\ attempt.witness = WitnessOf(proof, parts, hax) /\ over = SigHashOf(draft)
      BY <2>1, <3>2
    <3>4. attempt.witness.proof = proof
      BY <3>3 DEF WitnessOf
    <3>5. /\ proof = ChainProof(spent.lock, branch, proof.full)
          /\ Unlocks(WitnessOf(proof, parts, hax), over) <=>
               /\ ~Burns(proof.condition) /\ InWindow(proof.condition)
               /\ ~Spoilt(proof.condition, hax)
      BY <2>2, <2>3, <3>1, <3>3, BranchStands
    <3>6. QED  BY <3>2, <3>3, <3>4, <3>5
  <2>4. ASSUME NEW key, NEW coinbase, attempt = SingleTried(key, coinbase, at, over)
        PROVE  LET proof == attempt.witness.proof IN
                 /\ proof = ChainProof(spent.lock, attempt.branch, proof.full)
                 /\ Unlocks(attempt.witness, SigHashOf(draft)) <=>
                      /\ ~Burns(proof.condition) /\ InWindow(proof.condition)
                      /\ ~Spoilt(proof.condition, attempt.hax)
                      /\ attempt.kind = "single" => page >= Bythos
    <3>1. PICK lock, parts : /\ lock = <<AssumedCondition(key, coinbase)>>
                             /\ parts = <<[key |-> key, over |-> over]>>
      OBVIOUS
    <3>2. PICK proof : proof = [condition |-> lock[1], axis |-> 1, root |-> lock_root(lock),
                                path |-> << >>, full |-> TRUE]
      OBVIOUS
    <3>3. /\ attempt.kind = "single" /\ attempt.branch = 1 /\ attempt.hax = << >>
          /\ attempt.over = over
          /\ attempt.refused = (FirstName(lock_root(lock)) # FirstName(lock_root(spent.lock)))
          /\ FirstName(lock_root(lock)) = FirstName(lock_root(spent.lock))
               => attempt.witness = WitnessOf(proof, parts, << >>)
      BY <2>4, <3>1, <3>2 DEF SingleTried
    <3>4. /\ FirstName(lock_root(lock)) = FirstName(lock_root(spent.lock))
          /\ attempt.witness = WitnessOf(proof, parts, << >>) /\ over = SigHashOf(draft)
      BY <2>1, <3>3
    <3>5. attempt.witness.proof = proof
      BY <3>4 DEF WitnessOf
    <3>6. /\ proof = ChainProof(spent.lock, 1, proof.full)
          /\ Unlocks(WitnessOf(proof, parts, << >>), over) <=>
               /\ ~Burns(proof.condition) /\ InWindow(proof.condition)
               /\ ~Spoilt(proof.condition, << >>) /\ page >= Bythos
      <4>1. proof = ChainProof(spent.lock, 1, proof.full)
        BY <3>1, <3>2, <3>4, SingleStands, Zenon
      <4>2. Unlocks(WitnessOf(proof, parts, << >>), over) <=>
              /\ ~Burns(proof.condition) /\ InWindow(proof.condition)
              /\ ~Spoilt(proof.condition, << >>) /\ page >= Bythos
        BY <3>1, <3>2, <3>4, SingleStands, Zenon
      <4>3. QED  BY <4>1, <4>2
    <3>7. QED  BY <3>3, <3>4, <3>5, <3>6
  <2>5. QED  BY <2>2, <2>3, <2>4 DEF TriedAt
<1>2. RefusalsSave
  <2> SUFFICES ASSUME RefusedNow, ~Stricter(spent.lock[attempt.branch]), NEW full \in BOOLEAN
               PROVE  ~Unlocks(WitnessOf(ChainProof(spent.lock, attempt.branch, full),
                                         attempt.parts, attempt.hax), attempt.over)
    BY DEF RefusalsSave
  <2>1. /\ attempt # NoAttempt /\ attempt.kind = "branch" /\ attempt.refused
        /\ page = attempt.at /\ attempt.branch \in DOMAIN spent.lock
    BY DEF RefusedNow, SentAsSigned
  <2>2. PICK at, over : at \in Nat /\ at <= page /\ TriedAt(at, over)
    BY <2>1 DEF WitnessInv, Tried
  <2>3. \A key, coinbase : attempt # SingleTried(key, coinbase, at, over)
    BY <2>1 DEF SingleTried
  <2>4. PICK branch, hax, parts :
          /\ branch \in 0 .. Len(spent.lock) /\ hax \in Preimages /\ IsList(parts)
          /\ attempt = BranchTried(branch, parts, hax, at, over)
    BY <2>2, <2>3 DEF TriedAt
  <2>5. /\ attempt.branch = branch /\ attempt.hax = hax /\ attempt.parts = parts
        /\ attempt.over = over /\ attempt.at = at
        /\ attempt.refused = BranchRefused(spent.lock, branch, at, parts, over, hax)
    BY <2>4 DEF BranchTried
  <2>6. /\ branch \in DOMAIN spent.lock
        /\ BranchRefused(spent.lock, branch, page, parts, over, hax)
    BY <2>1, <2>5
  <2>7. /\ ~(RulesOf(spent.lock[branch], "pkh") = {} /\ parts # << >>)
        /\ IsInjective([i \in DOMAIN parts |-> parts[i].key])
        /\ IsInjective([i \in DOMAIN hax |-> hax[i].hash])
    BY <2>5 DEF Stricter
  <2>8. ~Unlocks(WitnessOf(ChainProof(spent.lock, branch, full), parts, hax), over)
    BY <2>4, <2>6, <2>7, BranchSaves
  <2>9. QED  BY <2>5, <2>8
<1>3. QED  BY <1>1, <1>2

\* For any locks of up to 16 branches, preimages, keys and bounds: a witness that is built
\* and sent as signed has the proof that the chain builds itself, and unlocks the note just
\* when its condition burns nothing, its window is open and no preimage is spoilt; and what
\* the builders refuse would not unlock it, but for the three cases of Stricter (settle.rs 607-870).
THEOREM WitnessesDecideCorrect ==
  SpendsInit /\ [][SpendsNext]_spendVars => []WitnessesDecide
<1>1. SpendsInit => WitnessInv
  BY WitnessInitially
<1>2. WitnessInv /\ [SpendsNext]_spendVars => WitnessInv'
  BY WitnessNext
<1>3. WitnessInv => WitnessesDecide
  BY WitnessInvDecides
<1>4. QED  BY <1>1, <1>2, <1>3, PTL

=============================================================================
