------------------------------- MODULE Config -------------------------------
(***************************************************************************)
(* src/config.rs: configurations, and the syntax of links.                 *)
(*                                                                         *)
(* A spelling of a link is a sequence of tokens: ".", "->", " ", and words *)
(* (of which no two are next to each other: they would be one).  As the    *)
(* configuration of an app is opaque here, so is what box_clone() copies.  *)
(***************************************************************************)
EXTENDS Naturals, Sequences

IsWord(t) == t \notin {".", "->", " "}

\* "word.word" at position n of a spelling.
IsPort(s, n) ==
  /\ n + 2 <= Len(s)
  /\ IsWord(s[n]) /\ s[n + 1] = "." /\ IsWord(s[n + 2])

Spaces(s, from, to) == \A n \in from .. to : s[n] = " "

\* Where LINK_SYNTAX matches, which is not anchored: a port, an arrow, a port,
\* and whatever there is around these.
Matches(s) ==
  {m \in (DOMAIN s) \X (DOMAIN s) \X (DOMAIN s) :
     /\ IsPort(s, m[1]) /\ s[m[2]] = "->" /\ IsPort(s, m[3])
     /\ m[1] + 2 < m[2] /\ Spaces(s, m[1] + 3, m[2] - 1)
     /\ m[2] < m[3] /\ Spaces(s, m[2] + 1, m[3] - 1)}

\* Otherwise parse_link() panics: "link parse error".
CanParseLink(s) == Matches(s) # {}

\* The leftmost match counts.
parse_link(s) ==
  LET m == CHOOSE m \in Matches(s) : \A o \in Matches(s) : m[1] <= o[1]
  IN  [from |-> s[m[1]], output |-> s[m[1] + 2], to |-> s[m[3]], input |-> s[m[3] + 2]]

format_link(spec) ==
  <<spec.from, ".", spec.output, " ", "->", " ", spec.to, ".", spec.input>>

canonical_link(s) == format_link(parse_link(s))

-----------------------------------------------------------------------------
(* A configuration.  Its links are spellings.                              *)

new == [apps |-> [n \in {} |-> n], links |-> {}]

app(config, name, conf) ==
  [config EXCEPT !.apps = [n \in DOMAIN @ \union {name} |->
                             IF n = name THEN conf ELSE @[n]]]

link(config, s) == [config EXCEPT !.links = @ \union {canonical_link(s)}]

=============================================================================
