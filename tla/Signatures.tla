----------------------------- MODULE Signatures -----------------------------
(* Schnorr signatures over the curve: the sponge they hash with (tip5.rs), the *)
(* scalars (scalar.rs), signing and verifying (schnorr.rs), what a signature   *)
(* is bound to (domain.rs), vesl-core's shim and its codecs (signing.rs), and  *)
(* the three that read a signature: a sign-in, a spend, a gate of the kernel.  *)
EXTENDS Cheetah

CONSTANTS Limbs,           \* of a scalar: 8
          LookupTable,     \* of a half word, a byte in the code, to another
          MdsRow,          \* the first row of the circulant matrix
          RoundConstants,  \* one sequence of STATE_SIZE per round
          BytesPerBelt,    \* 7
          ByteBase,        \* 256
          SecretKeys,      \* limb sequences a caller may ask to sign with
          Digests,         \* what may be signed: a domain and bytes
          Garbled,         \* limb sequences a scalar may be read as
          NoSignature

-----------------------------------------------------------------------------
(* Tip5.                                                                       *)

RATE == 10
STATE_SIZE == 16
NUM_SPLIT_AND_LOOKUP == 4

sbox_layer(state) ==
  Poly(STATE_SIZE, LAMBDA i :
    IF i <= NUM_SPLIT_AND_LOOKUP
    THEN LookupTable[state[i] % Half] + Half * LookupTable[state[i] \div Half]
    ELSE bpow(state[i], 7))

linear_layer(state) ==
  Poly(STATE_SIZE, LAMBDA i :
    SumOf([j \in 1 .. STATE_SIZE |-> bmul[MdsRow[((j - i) % STATE_SIZE) + 1], state[j]]],
          STATE_SIZE))

Shifted(b, constants) ==
  Poly(STATE_SIZE, LAMBDA j : badd[(constants[j] * WordSize) % PRIME, b[j]])

\* A function, as Filled is: TLC has each state in hand before the next round.
Round == [state, constants \in Seq(Words) |-> Shifted(linear_layer(sbox_layer(state)), constants)]
permute(sponge) ==
  FoldLeft(LAMBDA state, constants : Round[state, constants], sponge, RoundConstants)

\* Input is reduced, padded with a one and zeros to whole blocks, and absorbed
\* over the rate; the capacity is carried on.
BlockPadded(input) == input \o <<1>> \o Zeros(RATE - (Len(input) % RATE) - 1)
Montified(input) == Poly(Len(input), LAMBDA i : montify[input[i] % PRIME])
Filled == [sponge, block \in Seq(Words) |-> permute(block \o SubSeq(sponge, RATE + 1, STATE_SIZE))]
Absorbed(input) ==
  FoldLeft(LAMBDA sponge, q : Filled[sponge, SubSeq(input, q * RATE + 1, (q + 1) * RATE)],
           Zeros(STATE_SIZE), Poly(Len(input) \div RATE, LAMBDA q : q - 1))
Digested(sponge) == Poly(5, LAMBDA i : mont_reduction(sponge[i]))
hash_varlen(input) == Digested(Absorbed(Montified(BlockPadded(input))))

\* Little-endian, and a zero belt after a whole number of them.
ByteAt(bytes, i) == IF i <= Len(bytes) THEN bytes[i] ELSE 0
bytes_to_belts(bytes) ==
  Poly(Len(bytes) \div BytesPerBelt + 1, LAMBDA c :
    FoldLeft(LAMBDA n, k : n * ByteBase + ByteAt(bytes, BytesPerBelt * c - k + 1), 0,
             Poly(BytesPerBelt, LAMBDA k : k)))

tip5_with_domain(domain, bytes) == hash_varlen(bytes_to_belts(domain) \o bytes_to_belts(bytes))

-----------------------------------------------------------------------------
(* Scalars: limbs of half a word, the least significant first.                 *)

to_ubig(limbs) == FoldRight(LAMBDA limb, n : n * Half + limb, limbs, 0)
from_ubig(n) == Poly(Limbs, LAMBDA i : (n \div Half ^ (i - 1)) % Half)
from_belts(belts) == Poly(Limbs, LAMBDA i : belts[i] % Half)
FitLimbs(belts) == \A i \in DOMAIN belts : belts[i] \in 0 .. Half - 1

IsKey(n) == n > 0 /\ n < GOrder

Coordinates(p) == p.x \o p.y
Challenge(scalar, pubkey, m) ==
  trunc_g_order(hash_varlen(Coordinates(scalar) \o Coordinates(pubkey) \o m))

Signed(nonce, chal, sig) ==
  IF nonce = 0 \/ chal = 0 \/ sig = 0 THEN NoSignature
  ELSE [chal |-> from_ubig(chal), sig |-> from_ubig(sig)]
WithChallenge(sk, nonce, chal) == Signed(nonce, chal, (nonce + chal * sk) % GOrder)
WithNonce(sk, m, pk, nonce) ==
  WithChallenge(sk, nonce, Challenge(ch_scal_big(nonce, A_GEN), pk, m))
WithKey(sk, m, pk) ==
  WithNonce(sk, m, pk, trunc_g_order(hash_varlen(Coordinates(pk) \o m \o from_ubig(sk))))
schnorr_sign(sk, m) == WithKey(sk, m, ch_scal_big(sk, A_GEN))

\* R = sig G - chal P, or an error of the curve.
Recovered(pubkey, chal, sig) ==
  ch_add(ch_scal_big(sig, A_GEN), ch_neg(ch_scal_big(chal, pubkey)))

Meets(pubkey, m, chal, scalar) ==
  scalar # CurveError /\ scalar.x # F6_ZERO /\ chal = Challenge(scalar, pubkey, m)
VerifiesAs(pubkey, m, chal, sig) ==
  /\ in_curve(pubkey) /\ IsKey(chal) /\ IsKey(sig)
  /\ Meets(pubkey, m, chal, Recovered(pubkey, chal, sig))
schnorr_verify(pubkey, m, signature) ==
  VerifiesAs(pubkey, m, to_ubig(signature.chal), to_ubig(signature.sig))

\* The chain's own verifier, which the gate of the kernel calls.
HoonVerify(pubkey, m, chal, sig) ==
  /\ IsKey(chal) /\ IsKey(sig)
  /\ chal = Challenge(Recovered(pubkey, chal, sig), pubkey, m)

-----------------------------------------------------------------------------
(* The shim and the codecs.                                                    *)

\* The secret as limbs: each must fit, and together they must be a key.
derive_pubkey(sk) ==
  IF FitLimbs(sk) /\ IsKey(to_ubig(sk)) THEN ch_scal_big(to_ubig(sk), A_GEN) ELSE CurveError

sign(sk, m) ==
  IF FitLimbs(sk) /\ IsKey(to_ubig(sk)) THEN schnorr_sign(to_ubig(sk), m) ELSE NoSignature

chain_signature_to_wire(pk, signature) ==
  [pubkey |-> into_base58(pk), chal |-> signature.chal, sig |-> signature.sig]

\* The two decoders refuse the same texts: no point, or a limb that is too wide.
Decodes(pk, wire) == pk # CurveError /\ FitLimbs(wire.chal) /\ FitLimbs(wire.sig)

decode_signature(wire) == [chal |-> wire.chal, sig |-> wire.sig]

\* What a co-signature of a spend is verified as: its limbs again, from belts.
verify_chain_signature(pk, m, signature) ==
  schnorr_verify(pk, m, [chal |-> from_belts(signature.chal), sig |-> from_belts(signature.sig)])

\* An atom, as its words from the lowest: x, y and the marker.
pubkey_canonical_bytes(pk) == pk.x \o pk.y \o <<1>>

pack_schnorr_signature(signature) ==
  to_ubig(signature.chal) * Half ^ Limbs + to_ubig(signature.sig)

\* sig-verify-schnorr: the key is taken apart again, and so is the signature.
GateAccepts(pk, m, packed) ==
  in_curve(pk) /\ HoonVerify(pk, m, packed \div Half ^ Limbs, packed % Half ^ Limbs)

-----------------------------------------------------------------------------
VARIABLES wire,    \* the signature in its text, once one was made
          signer,  \* the key it was made with and the digest: the limbs, m
          intact,  \* nothing of it was changed on its way
          answers  \* what the three readers said of it, and for which digest

signatureVars == <<wire, signer, intact, answers>>

SignaturesInit ==
  wire = NoSignature /\ signer = NoSignature /\ intact = TRUE /\ answers = NoSignature

Digest(d) == tip5_with_domain(d.domain, d.bytes)

Sent(sk, signature) ==
  IF signature = NoSignature THEN NoSignature
  ELSE chain_signature_to_wire(derive_pubkey(sk), signature)

\* The secret and the digest decide the signature: there is no randomness.
SignDigest(sk, d) ==
  /\ wire = NoSignature
  /\ wire' = Sent(sk, sign(sk, Digest(d)))
  /\ signer' = [sk |-> sk, digest |-> d]
  /\ UNCHANGED <<intact, answers>>

\* The text that arrives is not the one that left.
Change(field, limbs) ==
  /\ wire # NoSignature /\ intact /\ answers = NoSignature
  /\ wire' = [wire EXCEPT ![field] = limbs]
  /\ intact' = (wire' = wire)
  /\ UNCHANGED <<signer, answers>>

Told(d, m, pk) ==
  [signIn |-> Decodes(pk, wire) /\ schnorr_verify(pk, m, decode_signature(wire)),
   spend |-> Decodes(pk, wire) /\ verify_chain_signature(pk, m, decode_signature(wire)),
   gate |-> /\ Decodes(pk, wire)
            /\ GateAccepts(PointOf(pubkey_canonical_bytes(pk)), m, pack_schnorr_signature(wire)),
   digest |-> d]

Read(d) ==
  /\ wire # NoSignature /\ answers = NoSignature
  /\ answers' = Told(d, Digest(d), from_base58(wire.pubkey))
  /\ UNCHANGED <<wire, signer, intact>>

SignaturesNext ==
  \/ \E sk \in SecretKeys, d \in Digests : SignDigest(sk, d)
  \/ \E field \in {"chal", "sig"}, limbs \in Garbled : Change(field, limbs)
  \/ \E d \in Digests : Read(d)

SignaturesSpec == SignaturesInit /\ [][SignaturesNext]_signatureVars

-----------------------------------------------------------------------------
\* The multiples of the generator, by repeated addition.
Multiples[k \in 0 .. GOrder - 1] == IF k = 0 THEN A_ID ELSE ch_add(Multiples[k - 1], A_GEN)

\* The wire's signature answers for the k-th multiple and the key sk.
Answers(sk, k) ==
  /\ FitLimbs(wire.chal) /\ FitLimbs(wire.sig)
  /\ IsKey(to_ubig(wire.chal)) /\ IsKey(to_ubig(wire.sig))
  /\ k # 0
  /\ to_ubig(wire.chal) = Challenge(Multiples[k], Multiples[sk], Digest(answers.digest))
TellOf(k, holds) ==
  /\ answers.signIn = holds /\ answers.spend = holds
  /\ k # 0 => answers.gate = holds
  /\ (intact /\ answers.digest = signer.digest) => holds
TellBy(sk, k) == TellOf(k, Answers(sk, k))

\* A signature that was made holds for its key and its digest with every reader,
\* and any text holds exactly if it is in range and its challenge is that of the
\* multiple sig - chal sk of the generator, which is not the identity: the field,
\* the curve, the double-and-add ladder and the codecs are all exact.  Where it is the
\* identity, schnorr_verify refuses and the gate's verify does not look: its answer is
\* left open, as the two readers may differ there.
SignaturesTell ==
  /\ (wire # NoSignature /\ intact) =>
       /\ FitLimbs(signer.sk) /\ to_ubig(signer.sk) \in 1 .. GOrder - 1
       /\ wire.pubkey = into_base58(Multiples[to_ubig(signer.sk)])
  /\ answers # NoSignature =>
       TellBy(to_ubig(signer.sk),
              (to_ubig(wire.sig) - to_ubig(wire.chal) * to_ubig(signer.sk)) % GOrder)

=============================================================================
