----------------------------- MODULE TargetPolicy -----------------------------
(***************************************************************************)
(* Addresses and what the platform may scan: how a target is normalised,    *)
(* when one block lies inside or overlaps another, and the policy that an   *)
(* operator configures.  A block is an aligned interval of addresses of one *)
(* of the two versions.                                                    *)
(***************************************************************************)
EXTENDS Naturals

CONSTANTS
  Addresses,       \* numbers: the addresses of each version
  Sizes,           \* sizes of blocks: the powers of two up to the whole space
  AlwaysForbidden, \* ALWAYS_FORBIDDEN_NETWORKS
  Private,         \* the private blocks of the IANA registries
  Invalid          \* an InvalidNetworkError, and a string that is no address

Blocks == {n \in [version : {4, 6}, first : Addresses, size : Sizes] : n.first % n.size = 0}

ASSUME AddressAssumption ==
  /\ Addresses \subseteq Nat
  /\ Sizes \subseteq Nat \ {0} /\ 1 \in Sizes
  /\ AlwaysForbidden \subseteq Blocks /\ Private \subseteq Blocks
  /\ Invalid \notin Blocks

\* What a caller types: a bare address, or an address with a prefix, whose
\* host bits may be set.
Texts == [version : {4, 6}, first : Addresses, size : Sizes, prefixed : BOOLEAN] \cup {Invalid}

\* Mutant of Normalise: host bits are let through.
NormaliseLoosely(text) ==
  IF text = Invalid THEN Invalid
  ELSE IF ~text.prefixed THEN [version |-> text.version, first |-> text.first, size |-> 1]
  ELSE [version |-> text.version, first |-> text.first, size |-> text.size]

\* normalise_network: one canonical block for every way to write it.
Normalise(text) ==
  IF text = Invalid THEN Invalid
  ELSE IF ~text.prefixed THEN [version |-> text.version, first |-> text.first, size |-> 1]
  ELSE IF text.first % text.size # 0 THEN Invalid
  ELSE [version |-> text.version, first |-> text.first, size |-> text.size]

LastAddress(n) == n.first + n.size - 1

\* is_contained_in: blocks of different versions never are.
ContainedIn(n, m) ==
  n.version = m.version /\ m.first <= n.first /\ LastAddress(n) <= LastAddress(m)

Overlaps(n, m) ==
  n.version = m.version /\ n.first <= LastAddress(m) /\ m.first <= LastAddress(n)

\* What a block stands for, for the properties.
Covers(n) == {<<n.version, a>> : a \in n.first..LastAddress(n)}

\* The settings of a process, read when it starts.
PolicyType == [denylist : SUBSET Blocks, allowPrivate : BOOLEAN, ceiling : Nat \ {0}]

\* What is always refused, and what the operator denies on top.
Forbidden(policy) == AlwaysForbidden \cup policy.denylist

IsPrivate(n) == \E p \in Private : ContainedIn(n, p)

\* assert_target_is_permitted, of a canonical block.
Permitted(policy, n) ==
  /\ \A m \in Forbidden(policy) : ~Overlaps(n, m)
  /\ policy.allowPrivate \/ ~IsPrivate(n)
=============================================================================
