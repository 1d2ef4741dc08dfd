------------------------------ MODULE MCTools -------------------------------
(* The libraries and tools around the kernel, and the rules of validate-graft, *)
(* one of them at work in each behaviour: they share no state.                 *)
EXTENDS SdkSettle, Checkpoint, GraftInject, ChainClient, ValidateGraft, OutputPins,
        Watch, RenameKernel, SettlementConfig, SiwnReplay, Peeks, WalletKeys,
        Lints, TLC

VARIABLE tool

IdleBut(t) ==
  /\ t # "sdk" => UNCHANGED sdkVars
  /\ t # "checkpoint" => UNCHANGED checkpointVars
  /\ t # "inject" => UNCHANGED injectVars
  /\ t # "chain" => UNCHANGED chainVars
  /\ t # "validate" => UNCHANGED validateVars
  /\ t # "pins" => UNCHANGED pinVars
  /\ t # "watch" => UNCHANGED watchVars
  /\ t # "rename" => UNCHANGED renameVars
  /\ t # "config" => UNCHANGED configVars
  /\ t # "siwn" => UNCHANGED siwnVars
  /\ t # "overlay" => UNCHANGED overlayVars
  /\ t # "signatures" => UNCHANGED signatureVars
  /\ t # "wallet" => UNCHANGED walletVars
  /\ t # "lints" => UNCHANGED lintVars
  /\ t # "query" => UNCHANGED queryVars

\* g1 loses its block at "state" with its second manifest, and g2 its imports.
MCContributes(g, v) ==
  IF g = "g1" THEN {"imports", "peek"} \cup (IF v = 1 THEN {"state"} ELSE {})
  ELSE {"state", "peek"} \cup (IF v = 1 THEN {"imports"} ELSE {})

\* Both import the Merkle library.
MCImportsOf(g) == IF g = "g1" THEN {"merkle"} ELSE {"merkle", "gates"}
MCHasEffect(g) == g = "g2"
MCGraftNames == <<"g1", "g2">>

MCWorth == [c \in OurCoins \cup TheirCoins |-> 2]

MCDemoKey == [phrase |-> "demo", account |-> 0]

\* Both messages have one window, and the second is issued two ticks later.
MCIssuedAt(m) == IF m = "m1" THEN 0 ELSE 2
MCExpires(m) == MCIssuedAt(m) + 3

\* Where the second has the shorter window.
MCExpiresApart(m) == MCIssuedAt(m) + (IF m = "m1" THEN 3 ELSE 1)

\* The grafts by priority; kernels have up to two of any, or three of these.
MCByPriority == <<"settle", "mint", "guard", "kv", "counter", "queue", "rbac", "registry",
                  "validate", "log", "clock", "batch">>
MCThrees == {"settle", "mint", "guard", "queue", "clock", "batch"}
MCCompositions ==
  { SelectSeq(MCByPriority, LAMBDA g : g \in s) :
      s \in { {g, h} : g, h \in Range(MCByPriority) }
            \cup { {g, h, k} : g, h, k \in MCThrees } }

MCTree(x) == Cell(x, Cell(Null, Null))
MCList(x) == Cell(x, Null)
\* A map that binds 2 to 5 and 3 to 0.
MCMap == Cell(Cell(AtomNoun(2), AtomNoun(5)),
              Cell(MCTree(Cell(AtomNoun(3), AtomNoun(0))), Null))
MCHeldNouns(g) ==
  CASE g = "settle" ->
         {Cell(AtomNoun(1), Cell(MCMap,
            Cell(MCTree(AtomNoun(3)), Cell(AtomNoun(1), MCTree(AtomNoun(4))))))}
    [] g \in {"mint", "guard", "kv", "counter", "registry"} -> {MCMap}
    [] g = "rbac" -> {MCTree(Cell(AtomNoun(2), MCTree(AtomNoun(3))))}
    [] g = "validate" -> {MCTree(Cell(AtomNoun(2), MCList(Cell(AtomNoun(9), Null))))}
    [] g = "queue" -> {Cell(MCList(Cell(Null, AtomNoun(7))), AtomNoun(1)), Cell(Null, AtomNoun(1))}
    [] g = "log" -> {Cell(MCList(Cell(Null, Cell(AtomNoun(6), AtomNoun(7)))), AtomNoun(1))}
    [] g = "clock" -> {AtomNoun(3)}
    [] g = "batch" -> {Cell(Cell(Null, MCList(AtomNoun(7))), Cell(AtomNoun(2), Null)),
                       Cell(Null, Cell(AtomNoun(2), Null))}

\* Keys, permissions, rules and numbers of entries.
MCAsked == { AtomNoun(n) : n \in {0, 1, 2, 3} }

\* Half words of two bits make the prime 13; over its extension the curve with
\* b = 6 x has a subgroup of order 7.
MCGenX == <<2, 2, 0, 9, 11, 10>>
MCGenY == <<3, 1, 9, 0, 1, 12>>

\* Small stand-ins for the sponge's tables, and two rounds of it.
MCLookupTable == [i \in 0 .. 3 |-> IF i \in {1, 2} THEN 3 - i ELSE i]
MCMdsRow == <<1, 5, 2, 11, 9, 3, 7, 6, 4, 12, 10, 8, 2, 6, 3, 9>>
MCRoundConstants == <<<<3, 1, 4, 1, 5, 9, 2, 6, 5, 3, 5, 8, 9, 7, 9, 3>>,
                      <<2, 7, 1, 8, 2, 8, 1, 8, 2, 8, 4, 5, 9, 0, 4, 5>>>>

\* Zero, the order, a limb too wide, the largest key, and another.
MCSecretKeys == {<<0, 0>>, <<3, 1>>, <<4, 0>>, <<2, 1>>, <<3, 0>>}
MCDigests == {[domain |-> <<1, 2>>, bytes |-> <<>>], [domain |-> <<1, 2>>, bytes |-> <<2, 1>>],
              [domain |-> <<2, 1, 1>>, bytes |-> <<1>>]}
MCGarbled == {<<0, 0>>, <<1, 0>>, <<3, 0>>, <<2, 1>>, <<3, 1>>, <<0, 4>>}

\* A hash for HMAC-SHA512, whose left halves are often out of range.
MCHmacOf(key, data) ==
  LET Halves(h, n) ==
        [left |-> <<n % Half, (n \div Half) % Half>>, right |-> SubSeq(h, 3, 5)]
      Hashed(h) == Halves(h, h[1] + PRIME * h[2])
  IN  Hashed(hash_varlen(key \o data))
MCSeeds == {<<1, 2>>, <<5>>}
MCMasterKey == <<9, 8, 7>>
MCRoles == [INTENT |-> 0, RECEIVING |-> 1, VOID |-> 2]

MCWallets ==
  { [seed |-> seed, master |-> master_from_seed(seed), coin_type |-> coin_type] :
      seed \in MCSeeds, coin_type \in CoinTypes }

\* Three grafts for the lints, where guard's manifest repeats the cause of mint's.
MCLintGrafts == <<"settle", "mint", "guard">>
MCPokeTags(g) ==
  CASE g = "settle" -> <<"register", "note">>
    [] g = "mint"   -> <<"commit">>
    [] g = "guard"  -> <<"commit", "check">>
MCStateFields(g) == <<g>>
MCCauseType(g) ==
  CASE g = "settle" -> "settle-cause" [] g = "mint" -> "mint-cause" [] g = "guard" -> "guard-cause"
MCHasPeek(g) == g # "mint"
MCGraftLibs(g) ==
  CASE g = "settle" -> {"merkle"} [] g = "mint" -> {"mint-graft"} [] g = "guard" -> {}
MCLibImports(f) == IF f = "mint-graft" THEN {"merkle"} ELSE {}
MCLocalTypes == { "my-cause" }
MCOwnRefs == MCLocalTypes \cup { MCCauseType("mint") }

\* No policy, one of two severities, and one with a name that is none.
MCLintTomls == { << >>, [collision |-> "warn"] @@ "bare-tilde-ambiguity" :> "note", [colision |-> "warn"] }
MCLintOverrides == { << >>, [collision |-> "error"] @@ "internal-dupes" :> "warn" }

\* Two blocks, and the transaction with one output or two.
MCChainBlocks == { [id |-> "b1", timestamp |-> 5], [id |-> "b2", timestamp |-> 8] }
MCTxWires ==
  { [fee |-> << >>, inputs |-> <<<<3>>, << >>>>, outputs |-> <<[amount |-> <<2>>, lock |-> "a"]>>],
    [fee |-> <<1>>, inputs |-> <<<<3>>>>,
     outputs |-> <<[amount |-> <<2>>, lock |-> "a"], [amount |-> << >>, lock |-> "b"]>>] }

\* A note with an entry that is torn and one that is off the field; a note of the old
\* kind, and a note without an amount or, by its name, off the field.
MCTorn == [u64_entry("k", 1) EXCEPT !.intact = FALSE]
MCNote == [id |-> 1, name |-> <<<<1>>, << >>>>, version |-> "v1", assets |-> <<4>>, data |-> << >>]
MCWireNotes ==
  { [MCNote EXCEPT !.data = <<MCTorn, u64_entry("k", 2), tip5_entry("h", <<1, 0>>),
                              [tip5_entry("i", <<1, 0>>) EXCEPT !.limbs = <<1, 4>>]>>],
    [MCNote EXCEPT !.id = 2, !.version = "legacy", !.assets = <<0>>],
    [MCNote EXCEPT !.id = 3, !.assets = << >>], [MCNote EXCEPT !.id = 4, !.name = <<<<1>>, <<4>>>>] }

\* Nothing set: how the other tools leave it.
ConfigUnset ==
  /\ flags = [mode |-> Unset, endpoint |-> Unset, submit |-> FALSE, phrase |-> Unset,
              account |-> Unset]
  /\ env = Unset /\ config = Unset
  /\ toml = [mode |-> Unset, endpoint |-> Unset, wallet |-> Unset]

MCInit ==
  /\ tool \in {"sdk", "checkpoint", "inject", "chain", "validate", "pins", "watch",
              "rename", "config", "siwn", "overlay", "signatures", "wallet", "lints", "query"}
  /\ SdkInit /\ ChainInit /\ ValidateInit /\ PinsInit /\ SiwnInit /\ SignaturesInit
  /\ CheckpointInit /\ (tool # "checkpoint" => source = CHOOSE b \in Builds : TRUE)
  /\ InjectInit /\ (tool # "inject" => kernel = Fresh)
  /\ LintsInit /\ (tool # "lints" => app_hoon = Template("tilde"))
  /\ WatchInit /\ (tool # "watch" => filter = NoFilter)
  /\ filter.tag \in {"none", "c", "x"}  \* the tags of a kind are alike
  /\ OverlayInit /\ (tool # "overlay" => composed = <<"settle">>)
  /\ RenameInit /\ (tool # "rename" => kernels = {AppKernel} /\ kernelName = AppKernel /\ readme = {})
  /\ QueryInit
  /\ (nodeTx # Unknown \/ tool # "query") => nodeNotes = [l \in NoteLocks |-> {}]
  /\ tool # "query" => nodeTx = Unknown
  /\ \A l \in NoteLocks : Cardinality(nodeNotes[l]) <= 1
  /\ WalletInit /\ (tool # "wallet" => wallet = CHOOSE w \in MCWallets : TRUE)
  /\ IF tool = "config" THEN ConfigInit ELSE ConfigUnset

MCNext ==
  /\ UNCHANGED tool
  /\ \/ tool = "sdk" /\ SdkNext
     \/ tool = "checkpoint" /\ CheckpointNext
     \/ tool = "inject" /\ InjectNext
     \/ tool = "chain" /\ ChainNext
     \/ tool = "validate" /\ ValidateNext
     \/ tool = "pins" /\ PinsNext
     \/ tool = "watch" /\ WatchNext
     \/ tool = "rename" /\ RenameNext
     \/ tool = "config" /\ Boot
     \/ tool = "siwn" /\ SiwnNext
     \/ tool = "overlay" /\ OverlayNext
     \/ tool = "signatures" /\ SignaturesNext
     \/ tool = "wallet" /\ WalletNext
     \/ tool = "lints" /\ LintsNext
     \/ tool = "query" /\ QueryNext
  /\ IdleBut(tool)

MCSpec ==
  /\ MCInit
  /\ [][MCNext]_<<tool, sdkVars, checkpointVars, injectVars, chainVars, validateVars, pinVars,
                  watchVars, renameVars, configVars, siwnVars, overlayVars, signatureVars,
                  walletVars, lintVars, queryVars>>
  /\ ValidateFairness
  /\ WatchFairness

=============================================================================
