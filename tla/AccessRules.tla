------------------------------ MODULE AccessRules ------------------------------
(***************************************************************************)
(* What a token may be used for and from where: path patterns              *)
(* (src/tokens.rs), addresses and subnets (src/vault/acl.rs), and which    *)
(* paths a LIST returns (src/api/routes/kv.rs), all decided on text, next  *)
(* to what the patterns, subnets and prefixes stand for.                   *)
(*                                                                         *)
(* Text is a sequence of characters, an address a sequence of bits.  A     *)
(* path is its segments, at least one and some of them perhaps empty: the  *)
(* path of a LIST request often ends in a slash, and the root is one empty *)
(* segment.                                                                *)
(*                                                                         *)
(* Definitions marked "mutant" are no part of the specification: each is a *)
(* plausible mistake in the definition that follows it, put in its place   *)
(* to see that a property notices.                                         *)
(***************************************************************************)
EXTENDS Naturals, Sequences, SequencesExt

CONSTANT Letters \* the characters of segments: all but the slash

ASSUME LettersAssumption == "/" \notin Letters

Segment == Seq(Letters)
Path == Seq(Segment) \ {<<>>}
Root == << <<>> >>

Slash == <<"/">>
Star == <<"*">>

\* A directory as text: each of its segments with a slash behind it.
Dir(segments) ==
  LET upTo[n \in 0..Len(segments)] ==
        IF n = 0 THEN <<>> ELSE upTo[n - 1] \o segments[n] \o Slash
  IN upTo[Len(segments)]

\* A path as text.
Text(path) == Dir(Front(path)) \o Last(path)

-----------------------------------------------------------------------------
(* Patterns                                                                 *)

\* As it is typed, a pattern is a path, or a path with a star behind it.
EndsInStar(text) == text # <<>> /\ Last(text) = "*"
Pattern ==
  {q \in [kind : {"exact", "glob"}, path : Path] :
     q.kind = "exact" => ~EndsInStar(Last(q.path))}
PatternText(q) ==
  IF q.kind = "exact" THEN Text(q.path) ELSE Text(q.path) \o Star

\* What a pattern stands for: the path itself, or all paths with the same
\* segments, the last of which may go on in any way.
Stands(q, path) ==
  CASE q.kind = "exact" -> path = q.path
    [] q.kind = "glob" ->
         /\ Len(q.path) <= Len(path)
         /\ \A n \in 1..(Len(q.path) - 1) : path[n] = q.path[n]
         /\ IsPrefix(Last(q.path), path[Len(q.path)])

\* A trailing star stands for any ending.
MatchesAnywhere(pattern, text) == \* mutant
  IF EndsInStar(pattern)
  THEN IsPrefix(SubSeq(pattern, 1, Len(pattern) - 2), text)
  ELSE pattern = text
Matches(pattern, text) ==
  IF EndsInStar(pattern) THEN IsPrefix(Front(pattern), text)
  ELSE pattern = text

\* path_allowed.
PathAllowed(patterns, text) == \E pattern \in patterns : Matches(pattern, text)

\* mint: a token for no path in particular is for every path.
Patterns(typed) == IF typed = {} THEN {Star} ELSE typed

-----------------------------------------------------------------------------
(* Addresses                                                                *)

Bit == {0, 1}
Address == Seq(Bit) \ {<<>>}
Subnet == {s \in [address : Address, length : Nat] : s.length <= Len(s.address)}

\* The addresses of a subnet: from the one with all bits behind its first
\* length bits zero to the one with all of them one, of the same family.
Filled(subnet, bit) ==
  [i \in 1..Len(subnet.address) |->
     IF i <= subnet.length THEN subnet.address[i] ELSE bit]
AtMost(a, b) ==
  a = b \/ \E i \in 1..Len(a) : a[i] < b[i] /\ \A j \in 1..(i - 1) : a[j] = b[j]
InSubnet(subnet, address) ==
  /\ Len(address) = Len(subnet.address)
  /\ AtMost(Filled(subnet, 0), address) /\ AtMost(address, Filled(subnet, 1))

\* entry_matches: a bare address is the subnet of all its bits.
EntryMatches(subnet, address) ==
  /\ Len(address) = Len(subnet.address)
  /\ \A i \in 1..subnet.length : address[i] = subnet.address[i]

\* ip_allowed: no entry means no restriction.
IpAllowed(subnets, address) ==
  subnets = {} \/ \E subnet \in subnets : EntryMatches(subnet, address)

\* X-Forwarded-For is a list of hops, the nearest last.  Each is an address, or
\* some text that is none.
Hop == Seq(Bit)
Garbled == <<>>
NoHeader == <<>>

\* client_ip: the first hop, if the peer is a trusted proxy and the hop is an
\* address; the peer's own address otherwise.
HeaderTrusted(peer, header, proxies) == \* mutant
  IF header # NoHeader /\ Head(header) # Garbled THEN Head(header) ELSE peer
LastHop(peer, header, proxies) == \* mutant
  IF peer \in proxies /\ header # NoHeader /\ Last(header) # Garbled
  THEN Last(header) ELSE peer
ClientIp(peer, header, proxies) ==
  IF peer \in proxies /\ header # NoHeader /\ Head(header) # Garbled
  THEN Head(header) ELSE peer

-----------------------------------------------------------------------------
(* Listing                                                                  *)

\* A sequence without the copies of e at its end.
TrimEnd(s, e) == SubSeq(s, 1, Max({0} \cup {i \in DOMAIN s : s[i] # e}))

\* trim_end_matches('/') on the path of a LIST.
Prefix(asked) == TrimEnd(Text(asked), "/")

\* The paths of metadata_list_inner: of the prefix, or below it.
ListedLoosely(paths, asked) == \* mutant
  {path \in paths : IsPrefix(Prefix(asked), Text(path))}
Listed(paths, asked) ==
  {path \in paths :
     \/ Prefix(asked) = <<>>
     \/ Text(path) = Prefix(asked)
     \/ IsPrefix(Prefix(asked) \o Slash, Text(path))}

\* What LIST is for: the paths that begin with the segments asked for, without
\* the empty ones at their end.
Below(paths, asked) ==
  {path \in paths : IsPrefix(TrimEnd(asked, <<>>), path)}
=============================================================================
