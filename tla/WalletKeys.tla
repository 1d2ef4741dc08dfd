----------------------------- MODULE WalletKeys -----------------------------
(* The keys of a wallet: vesl-wallet's derivation (hd.rs) and the roles it     *)
(* derives for (wallet.rs), beside the chain's own derivation (slip10.hoon),   *)
(* of private and of public keys, which it has to agree with.  HMAC-SHA512 is  *)
(* external: a function of a key and data to a left half, read as a scalar,    *)
(* and a right half, the chain code.                                           *)
EXTENDS Signatures

CONSTANTS Seeds,           \* what wallets are made from
          HmacOf(_, _),    \* [left, right] of a key and data; left by limbs, big-endian
          MasterKey,       \* the domain separator
          HardenedBit,     \* 2^31
          CoinTypes,       \* of wallets and of paths
          AccountNumbers,  \* some at or above HardenedBit
          Indices,
          Roles,           \* role names to numbers
          NoKey

BIP44_PURPOSE == 44 % HardenedBit

ser256(limbs) == Reverse(limbs)
from_be_bytes(limbs) == Reverse(limbs)

\* The data that is hashed. The tag of a retry is the first byte of a point.
HardenedData(scalar, i) == <<0>> \o ser256(scalar) \o <<i>>
ser_a_pt(p) == <<1>> \o Reverse(Coordinates(p))
RetryData(right, i) == <<1>> \o right \o <<i>>

split(digest) == [left |-> from_be_bytes(digest.left), right |-> digest.right]

RECURSIVE MasterFrom(_)
MasterOf(digest, half) ==
  IF to_ubig(half.left) \in 1 .. GOrder - 1
  THEN [scalar |-> half.left, chain_code |-> half.right]
  ELSE MasterFrom(HmacOf(MasterKey, digest.left \o digest.right))
MasterFrom(digest) == MasterOf(digest, split(digest))

master_from_seed(seed) == MasterFrom(HmacOf(MasterKey, seed))

add_mod_order(a, b) == from_ubig((to_ubig(a) + to_ubig(b)) % GOrder)

\* Rehash under the parent's chain code until there is a key.
RECURSIVE ckd(_, _, _)
ckdOf(parent, wire_index, half, scalar) ==
  IF to_ubig(half.left) < GOrder /\ to_ubig(scalar) # 0
  THEN [scalar |-> scalar, chain_code |-> half.right]
  ELSE ckd(parent, wire_index, RetryData(half.right, wire_index))
ckdFrom(parent, wire_index, half) ==
  ckdOf(parent, wire_index, half, add_mod_order(half.left, parent.scalar))
ckd(parent, wire_index, data) ==
  ckdFrom(parent, wire_index, split(HmacOf(parent.chain_code, data)))

\* Wrong variant of ckd_hardened: the data holds the raw index.
ckd_hardened_raw(parent, index) ==
  IF index >= HardenedBit THEN NoKey
  ELSE ckd(parent, index + HardenedBit, HardenedData(parent.scalar, index))

\* The index is the raw one: the bit is set here, and refused of a caller.
ckd_hardened(parent, index) ==
  IF index >= HardenedBit THEN NoKey
  ELSE ckd(parent, index + HardenedBit, HardenedData(parent.scalar, index + HardenedBit))

ckd_non_hardened(parent, index) ==
  IF index >= HardenedBit THEN NoKey
  ELSE ckd(parent, index,
           ser_a_pt(ch_scal_big(to_ubig(parent.scalar), A_GEN)) \o <<index>>)

Child(parent, hardened, index) ==
  IF parent = NoKey THEN NoKey
  ELSE IF hardened THEN ckd_hardened(parent, index)
  ELSE ckd_non_hardened(parent, index)

\* The keys on the way to a path: the master, three hardened levels and two
\* more, and NoKey from the first that is refused.
Levels(master, path) ==
  FoldLeft(LAMBDA keys, step : Append(keys, Child(Last(keys), step[1], step[2])),
           <<master>>,
           <<<<TRUE, BIP44_PURPOSE>>, <<TRUE, path.coin_type>>, <<TRUE, path.account>>,
             <<FALSE, path.role>>, <<FALSE, path.index>>>>)

\* A path of another coin type is refused before anything is derived.
ScalarOf(key) == IF key = NoKey THEN NoKey ELSE key.scalar
derive(wallet, path) ==
  IF path.coin_type # wallet.coin_type THEN NoKey
  ELSE ScalarOf(Last(Levels(wallet.master, path)))

PathOf(wallet, account, role, index) ==
  [coin_type |-> wallet.coin_type, account |-> account, role |-> Roles[role], index |-> index]

-----------------------------------------------------------------------------
(* The chain's derivation: the data, the retries and the acceptance its own.   *)

PublicPoint(prv) == ch_scal_big(prv, A_GEN)

RECURSIVE Rehashed(_)
SeedCore(der, left) ==
  IF left < GOrder THEN [prv |-> left, pub |-> PublicPoint(left), cad |-> der.right]
  ELSE Rehashed(HmacOf(MasterKey, der.left \o der.right))
Rehashed(der) == SeedCore(der, to_ubig(Reverse(der.left)))

from_seed(seed) == Rehashed(HmacOf(MasterKey, seed))

RECURSIVE PrivateFrom(_, _, _)
PrivateCore(core, i, der, left, key) ==
  IF key # 0 /\ left < GOrder
  THEN [prv |-> key, pub |-> PublicPoint(key), cad |-> der.right]
  ELSE PrivateFrom(core, i, HmacOf(core.cad, RetryData(der.right, i)))
PrivateBy(core, i, der, left) == PrivateCore(core, i, der, left, (left + core.prv) % GOrder)
PrivateFrom(core, i, der) == PrivateBy(core, i, der, to_ubig(Reverse(der.left)))

derive_private(core, i) ==
  PrivateFrom(core, i, HmacOf(core.cad,
    IF i >= HardenedBit THEN HardenedData(from_ubig(core.prv), i)
    ELSE ser_a_pt(PublicPoint(core.prv)) \o <<i>>))

\* Of a public key alone: an index that is not hardened.
RECURSIVE PublicFrom(_, _, _)
PublicCore(core, i, der, left, key) ==
  IF left < GOrder /\ key # A_ID THEN [pub |-> key, cad |-> der.right]
  ELSE PublicFrom(core, i, HmacOf(core.cad, RetryData(der.right, i)))
PublicBy(core, i, der, left) ==
  PublicCore(core, i, der, left, ch_add(PublicPoint(left), core.pub))
PublicFrom(core, i, der) == PublicBy(core, i, der, to_ubig(Reverse(der.left)))

derive_public(core, i) ==
  PublicFrom(core, i, HmacOf(core.cad, ser_a_pt(core.pub) \o <<i>>))

-----------------------------------------------------------------------------
VARIABLES wallet,  \* the one that is open, with its seed
          request, \* the path asked last, in numbers, or NoKey
          given    \* the key it gave, or NoKey

walletVars == <<wallet, request, given>>

WalletInit ==
  /\ \E seed \in Seeds, coin_type \in CoinTypes :
       wallet = [seed |-> seed, master |-> master_from_seed(seed), coin_type |-> coin_type]
  /\ request = NoKey /\ given = NoKey

\* The signers and the receiving key of an account, each under its role. One
\* question a behaviour: a wallet does not change.
RoleKey(account, role, index) ==
  /\ request = NoKey
  /\ LET path == PathOf(wallet, account, role, index)
     IN  request' = path /\ given' = derive(wallet, path) /\ UNCHANGED wallet

\* A path its caller wrote out, perhaps for another coin.
Derive(coin_type, account, index) ==
  /\ request = NoKey
  /\ LET path == [coin_type |-> coin_type, account |-> account, role |-> 0, index |-> index]
     IN  request' = path /\ given' = derive(wallet, path) /\ UNCHANGED wallet

WalletNext ==
  \/ \E account \in AccountNumbers, role \in DOMAIN Roles, index \in Indices :
       RoleKey(account, role, index)
  \/ \E coin_type \in CoinTypes, account \in AccountNumbers, index \in Indices :
       Derive(coin_type, account, index)

WalletSpec == WalletInit /\ [][WalletNext]_walletVars

-----------------------------------------------------------------------------
\* The index a level is derived with on the chain's side.
ChainIndices(path) ==
  <<BIP44_PURPOSE + HardenedBit, path.coin_type + HardenedBit, path.account + HardenedBit,
    path.role, path.index>>

\* The chain's cores on the same way.
CoresOf(seed, path) ==
  FoldLeft(LAMBDA cores, i : Append(cores, derive_private(Last(cores), i)),
           <<from_seed(seed)>>, ChainIndices(path))

Agree(levels, cores) ==
  /\ given = Last(levels).scalar
  /\ \A n \in 1 .. 6 : /\ to_ubig(levels[n].scalar) = cores[n].prv
                       /\ levels[n].chain_code = cores[n].cad
                       /\ IsKey(cores[n].prv)
  /\ \A n \in {4, 5} : derive_public(cores[n], ChainIndices(request)[n])
                         = [pub |-> cores[n + 1].pub, cad |-> cores[n + 1].cad]
  /\ IsInjective([n \in 1 .. 6 |-> levels[n].chain_code])

\* A wallet gives a key for each path of its coin with indices that are not
\* hardened, and for no other; every level on the way to it is the chain's own,
\* derived from the same seed and the same indices; the last two levels follow
\* from the public keys above them; and no level shares a chain code with another.
KeysConform ==
  request # NoKey =>
    /\ (given # NoKey) <=>
         /\ request.coin_type = wallet.coin_type
         /\ \A i \in {request.coin_type, request.account, request.index} : i < HardenedBit
    /\ given # NoKey =>
         Agree(Levels(wallet.master, request), CoresOf(wallet.seed, request))

=============================================================================
