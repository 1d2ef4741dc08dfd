-------------------------- MODULE SettlementConfig --------------------------
(* What a hull settles with: the mode, the endpoint and the key that flags,     *)
(* environment, vesl.toml and defaults come to at boot (vesl-core config.rs,    *)
(* vesl-hull config.rs).  Resolution is a function: each behaviour is one boot.  *)
EXTENDS Integers, Sequences

CONSTANTS
  Phrases,      \* seed phrases
  Endpoints,
  Localhost,    \* the default endpoint of fakenet
  DemoKey,      \* the key that everybody knows
  Accounts,
  Unset         \* an absent value

\* The key at the intent role of a phrase and an account; the coin type and the
\* numbers of the role come from vesl.toml alone and are left out. Each phrase is
\* taken to be a good one. Nothing rules out that one derives the demo key.
Keys == [phrase : Phrases, account : Accounts]

MaybeEndpoint == Endpoints \cup {Unset}
MaybePhrase == Phrases \cup {Unset}

Wallets == [phrase : MaybePhrase, account : Accounts \cup {Unset}]

ASSUME ConfigAssumption ==
  /\ 0 \in Accounts
  /\ DemoKey \in Keys
  /\ Unset \notin Keys \cup Wallets
  /\ Unset \notin Phrases /\ Unset \notin Endpoints /\ Unset \notin Accounts

VARIABLES
  flags,        \* SettlementCliOverrides
  env,          \* VESL_SEED_PHRASE
  toml,         \* SettlementToml; "typo" is a mode that does not parse
  config        \* SettlementConfig, Unset before the first boot, or Refused

configVars == <<flags, env, toml, config>>

Refused == [mode |-> "refused"]

Modes == {"local", "fakenet", "dumbnet"}

Flags == [mode : Modes \cup {Unset}, endpoint : MaybeEndpoint, submit : BOOLEAN,
          phrase : MaybePhrase, account : Accounts \cup {Unset}]
Tomls == [mode : Modes \cup {"typo", Unset}, endpoint : MaybeEndpoint,
          wallet : Wallets \cup {Unset}]

-----------------------------------------------------------------------------
(* Resolution *)

\* or_else
Or(a, b) == IF a = Unset THEN b ELSE a

\* A mode that does not parse counts as none.
ResolvedMode ==
  Or(flags.mode,
     IF toml.mode \in Modes THEN toml.mode
     ELSE IF flags.endpoint # Unset \/ flags.submit THEN "fakenet" ELSE "local")

ResolvedPhrase ==
  Or(flags.phrase, Or(env, IF toml.wallet = Unset THEN Unset ELSE toml.wallet.phrase))

resolve_wallet ==
  LET w == toml.wallet
  IN IF w = Unset /\ flags.account = Unset /\ ResolvedPhrase = Unset THEN Unset
     ELSE [phrase |-> ResolvedPhrase,
           account |-> Or(flags.account, Or(IF w = Unset THEN Unset ELSE w.account, 0))]

\* No key without a phrase.
wallet_role_belts(wallet) ==
  IF wallet = Unset \/ wallet.phrase = Unset THEN Unset
  ELSE [phrase |-> wallet.phrase, account |-> wallet.account]

resolve_local == [mode |-> "local", endpoint |-> Unset, key |-> Unset, auto_submit |-> FALSE,
                  wallet |-> resolve_wallet]

resolve_fakenet == [mode |-> "fakenet", endpoint |-> Or(flags.endpoint, Or(toml.endpoint, Localhost)),
                    key |-> DemoKey, auto_submit |-> TRUE, wallet |-> resolve_wallet]

\* Wrong variant: the account flag is forgotten where the key is made.
resolve_dumbnet_tomlaccount ==
  LET endpoint == Or(flags.endpoint, toml.endpoint)
      wallet == resolve_wallet
      own == IF wallet = Unset \/ toml.wallet = Unset THEN wallet
             ELSE [wallet EXCEPT !.account = Or(toml.wallet.account, 0)]
  IN IF endpoint = Unset THEN Refused
     ELSE [mode |-> "dumbnet", endpoint |-> endpoint, key |-> wallet_role_belts(own),
           auto_submit |-> TRUE, wallet |-> wallet]

resolve_dumbnet ==
  LET endpoint == Or(flags.endpoint, toml.endpoint)
  IN IF endpoint = Unset THEN Refused
     ELSE [mode |-> "dumbnet", endpoint |-> endpoint,
           key |-> wallet_role_belts(resolve_wallet),
           auto_submit |-> TRUE, wallet |-> resolve_wallet]

\* resolve_with_demo_key_checked: dumbnet does not take the demo key.
Resolved ==
  CASE ResolvedMode = "local" -> resolve_local
    [] ResolvedMode = "fakenet" -> resolve_fakenet
    [] ResolvedMode = "dumbnet" ->
         IF resolve_dumbnet # Refused /\ resolve_dumbnet.key = DemoKey THEN Refused
         ELSE resolve_dumbnet

can_submit(c) == c.auto_submit /\ c.endpoint # Unset /\ c.key # Unset

intent_signer_belts(c) == wallet_role_belts(c.wallet)

-----------------------------------------------------------------------------
(* The boot of a hull *)

\* A vesl.toml that is absent or does not parse has nothing set.
ConfigInit == flags \in Flags /\ env \in MaybePhrase /\ toml \in Tomls /\ config = Unset

Boot == config = Unset /\ config' = Resolved /\ UNCHANGED <<flags, env, toml>>

ConfigSpec == ConfigInit /\ [][Boot]_configVars

-----------------------------------------------------------------------------
(* Properties *)

IsFirstSet(values, i) ==
  values[i] # Unset /\ \A j \in DOMAIN values : j < i => values[j] = Unset

\* The first of the values that is set.
FirstSet(values) ==
  LET first == {i \in DOMAIN values : IsFirstSet(values, i)}
  IN IF first = {} THEN Unset ELSE values[CHOOSE i \in first : TRUE]

\* A booted hull settles as it was asked to: a flag for the mode stands; local
\* submits nothing; the demo key signs on fakenet only; on dumbnet what signs is the
\* intent signer of the wallet, of the phrase and account given first by flag,
\* environment and file ("CLI > env > toml > mode defaults"; wallet_role_belts: "so
\* the two paths can't diverge").
BootedAsAsked ==
  config # Unset /\ config # Refused =>
    /\ flags.mode # Unset => config.mode = flags.mode
    /\ config.mode = "local" => ~can_submit(config) /\ config.endpoint = Unset
    /\ config.key = DemoKey => config.mode = "fakenet"
    /\ LET signer == intent_signer_belts(config)
           file == IF toml.wallet = Unset THEN [phrase |-> Unset, account |-> Unset] ELSE toml.wallet
           phrase == FirstSet(<<flags.phrase, env, file.phrase>>)
       IN /\ config.mode = "dumbnet" => config.key = signer
          /\ signer = IF phrase = Unset THEN Unset
                      ELSE [phrase |-> phrase,
                            account |-> FirstSet(<<flags.account, file.account, 0>>)]

=============================================================================
