------------------------------ MODULE MCGrafts ------------------------------
(* The grafts that keep a table or a list of their own, one of them at work in *)
(* each behaviour: they share no state, so nothing comes of interleaving them. *)
(* In "audit" the stores and the log work together, by audit-write.  So are the *)
(* Merkle library, the gates of a settle graft with those who meet them, the    *)
(* locks of the SDK, and its spends of one branch.                              *)
EXTENDS AuditedWrites, BatchGraft, RbacGraft, CounterGraft, RootGrafts, Gates,
        EscrowLocks, BranchSpends, TLC

CONSTANTS s1, s2, s3

VARIABLE graft

kvIdle == UNCHANGED kvVars
queueIdle == UNCHANGED queueVars
batchIdle == UNCHANGED batchVars
logIdle == UNCHANGED logVars
rbacIdle == UNCHANGED rbacVars
registryIdle == UNCHANGED registryVars
counterIdle == UNCHANGED counterVars
rootsIdle == UNCHANGED rootVars
trailIdle == UNCHANGED <<trail, bypassed>>
storesIdle == kvIdle /\ queueIdle /\ logIdle /\ registryIdle
othersIdle == batchIdle /\ rbacIdle /\ counterIdle /\ rootsIdle

\* Two data have one hash: the hash of d3 is that of d1.
MCHashLeaf(d) == IF d = "d3" THEN "d1" ELSE d

\* Lists of chunks of one to five, odd at one level or two, with chunks that repeat
\* and chunks that differ by a trailing zero.
MCDataSets ==
  LET a == <<1>> a0 == <<1, 0>> b == <<2>> none == << >>
  IN {<<a>>, <<a, a>>, <<a, b>>, <<a, b, a0>>, <<a, b, none>>, <<a, b, none, none>>,
      <<a, b, none, a, b>>}

\* Byte 9 is the colon: the leaves of the first two fields are one.
MCField1 == [key |-> <<1>>, value |-> <<9, 2>>]
MCField2 == [key |-> <<1, 9>>, value |-> <<2>>]
MCField3 == [key |-> <<3>>, value |-> <<4>>]
MCFieldLists == {<<MCField1>>, <<MCField1, MCField2, MCField3>>}

\* A public key alone, and a list with a jammed range.
MCKeyCommits == { <<<<7>>>>, <<<<5, 4, 6, 1>>, <<7>>>> }
MCAttestations == { [by |-> key, over |-> <<3, 9, 4>>] : key \in {<<7>>, <<8>>} }
MCRanges == { <<5, 4, 6>>, <<5, 4, 5>>, <<3, 4, 6>> }

MCNoGates == [gate |-> NoneSet, chain |-> NoneSet]
MCGateTables ==
  { MCNoGates, [gate |-> "manifest-verify", chain |-> <<"manifest-verify">>] }
  \cup { [MCNoGates EXCEPT !.gate = name] :
           name \in {"manifest-verify", "bounded-value-verify"} }
  \cup { [MCNoGates EXCEPT !.chain = names] :
           names \in { << >>, <<"set-membership-verify">>,
                      <<"sig-verify-ed25519", "sig-verify-schnorr">> } }

\* Deadlines of the locks, from none to beyond the field.
MCParams == 0..Prime
MCOrder == CHOOSE o \in Orders : TRUE

\* Keys differ by name alone, so one naming of the parties' keys stands for all that
\* make the same of them equal: the one where the names are taken in order.
MCKeyNames == SetToSeq(Keys)
NamedInOrder(o) ==
  LET parties == SetToSeq(DOMAIN o.key)
      named(i) == CHOOSE n \in DOMAIN MCKeyNames : MCKeyNames[n] = o.key[parties[i]]
  IN \A i \in DOMAIN parties : named(i) <= 1 + Max({0} \cup { named(j) : j \in 1 .. i - 1 })

\* Bound: signatures by keys that the branch meant does not name.  A spend is of one
\* transaction and takes two at the most, and LocksBind is about those that take one of
\* a party, so they hold one of these or none.  Keys no branch names can sign nothing away.
MCStrays == 1
FewStrays ==
  LET strays == {s \in signed : s[1] \notin Lock(order)[s[2]].keys}
  IN /\ Cardinality(strays) <= MCStrays
     /\ \A s \in strays : \E b \in Branches : s[1] \in Lock(order)[b].keys

\* Two notes: of one key with a coinbase, and of four branches.
Members(m, keys) == [kind |-> "pkh", m |-> m, keys |-> keys]
Hashlock(hashes) == [kind |-> "hax", hashes |-> hashes]
Within(relMin, absMax) ==
  [kind |-> "tim", relMin |-> relMin, relMax |-> << >>, absMin |-> << >>, absMax |-> absMax]
Burn == [kind |-> "brn"]

MCLockedNotes ==
  { [since |-> 0, lock |-> lock] : lock \in {
      <<AssumedCondition(s1, TRUE)>>,
      << <<Members(2, {s1, s2}), Hashlock({"x"})>>,
         <<Hashlock({"y"})>>,
         <<Members(1, {s1}), Hashlock({"x", "y"}), Within(<<1>>, <<1>>)>>,
         <<Burn, Hashlock({"f"})>> >> } }

\* Preimages that are wrong, mended or spoilt by a later one, in another order, or not there.
Entry(hash, value) == [hash |-> hash, value |-> value]
MCPreimages ==
  { << >>, <<Entry("x", "y")>>, <<Entry("x", "y"), Entry("x", "x")>>,
    <<Entry("y", "y"), Entry("x", "x")>>,
    <<Entry("y", "y"), Entry("x", "x"), Entry("x", "y")>> }

\* Two roots, with and without one key of note data twice.
Wanted(root, noteData) == [root |-> root, data |-> noteData]
MCWantedSeeds ==
  { <<Wanted(1, [k |-> 2]), Wanted(1, [m |-> 3]), Wanted(2, [k |-> 4, l |-> 1])>>,
    <<Wanted(1, [k |-> 2]), Wanted(1, [k |-> 4, l |-> 1])>> }

MCInit ==
  /\ graft \in {"kv", "queue", "batch", "log", "rbac", "registry", "counter", "roots", "audit",
               "merkle", "gates", "locks", "spends"}
  /\ AuditInit /\ BatchInit /\ RbacInit /\ CounterInit /\ RootsInit
  /\ MerkleInit /\ GatesInit
  /\ SpendsInit /\ (graft # "spends" => spent = CHOOSE note \in LockedNotes : TRUE)
  /\ IF graft = "locks" THEN Init /\ NamedInOrder(order)
     ELSE order = MCOrder /\ status = "asked" /\ height = 0 /\ since = 0 /\ signed = {} /\ spend = NoSpend

MCNext ==
  /\ UNCHANGED graft
  /\ graft # "merkle" => UNCHANGED merkleVars
  /\ graft # "gates" => UNCHANGED gateVars
  /\ graft # "locks" => UNCHANGED vars
  /\ graft # "spends" => UNCHANGED spendVars
  /\ \/ graft = "kv" /\ Bypass /\ registryIdle /\ othersIdle
     \/ graft = "queue" /\ QueueNext /\ kvIdle /\ logIdle /\ registryIdle /\ othersIdle /\ trailIdle
     \/ graft = "log" /\ LogNext /\ kvIdle /\ queueIdle /\ registryIdle /\ othersIdle /\ trailIdle
     \/ graft = "registry" /\ Bypass /\ kvIdle /\ othersIdle
     \/ graft = "batch" /\ BatchNext /\ storesIdle /\ rbacIdle /\ counterIdle /\ rootsIdle /\ trailIdle
     \/ graft = "rbac" /\ RbacNext /\ storesIdle /\ batchIdle /\ counterIdle /\ rootsIdle /\ trailIdle
     \/ graft = "counter" /\ CounterNext /\ storesIdle /\ batchIdle /\ rbacIdle /\ rootsIdle /\ trailIdle
     \/ graft = "roots" /\ RootsNext /\ storesIdle /\ batchIdle /\ rbacIdle /\ counterIdle /\ trailIdle
     \/ graft = "audit" /\ AuditWrite /\ othersIdle
     \/ graft = "audit" /\ Len(trail) = MaxAudits /\ UNCHANGED auditVars /\ othersIdle
     \/ graft = "merkle" /\ MerkleNext /\ UNCHANGED auditVars /\ othersIdle
     \/ graft = "gates" /\ GatesNext /\ UNCHANGED auditVars /\ othersIdle
     \/ graft = "locks" /\ ((Next /\ FewStrays') \/ UNCHANGED vars) /\ UNCHANGED auditVars /\ othersIdle
     \/ graft = "spends" /\ (SpendsNext \/ UNCHANGED spendVars) /\ UNCHANGED auditVars /\ othersIdle

MCSpec ==
  /\ MCInit
  /\ [][MCNext]_<<graft, auditVars, batchVars, rbacVars, counterVars, rootVars, merkleVars,
                  gateVars, vars, spendVars>>
  /\ Fairness

=============================================================================
