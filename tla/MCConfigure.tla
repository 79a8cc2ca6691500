---------------------------- MODULE MCConfigure -----------------------------
(* Instances of Configure for TLC: networks that are put together with the *)
(* functions of config.rs.                                                 *)
EXTENDS Configure, Sequences

C == INSTANCE Config

Source(t, shown) ==
  [type |-> t, shown |-> shown, pull |-> TRUE, push |-> FALSE, stop |-> FALSE, fails |-> FALSE]
Sink == [type |-> "basic_apps::Sink", shown |-> "Sink", pull |-> FALSE,
         push |-> TRUE, stop |-> FALSE, fails |-> FALSE]
Nic  == [type |-> "ixy82599_app::Ixy82599", shown |-> "Ixy82599", pull |-> TRUE,
         push |-> TRUE, stop |-> TRUE, fails |-> TRUE]

Source60  == Source("basic_apps::Source", "Source { size: 60 }")
Source120 == Source("basic_apps::Source", "Source { size: 120 }")
\* Another type of the same name, in another module.
Other60   == Source("other_apps::Source", "Source { size: 60 }")

TwoApps == {"a", "b"}

\* Spellings of two links from one output port, one back, and one from an app
\* to itself that shares a port with two of the others.  The first two spell one
\* link, and the last is not all of what is written.
Forth  == <<"a", ".", "out", " ", "->", " ", "b", ".", "in">>
Tight  == <<"a", ".", "out", "->", "b", ".", "in", " ">>
Forth2 == <<" ", "a", ".", "out", "->", " ", " ", "b", ".", "in2">>
Back   == <<"b", ".", "out", " ", " ", "->", "a", ".", "in">>
Loop   == <<"x", ".", "b", ".", "out", "->", "b", ".", "in", ".", "y">>
Specs  == {C!parse_link(s) : s \in {Forth, Tight, Forth2, Back, Loop}}

\* What configure() finds in a configuration: it parses the links.
Parsed(c) == [c EXCEPT !.links = {C!parse_link(s) : s \in @}]

\* Applications of config::app() and config::link().
OneApp(n, x)  == C!app(C!new, n, x)
Both(x, y)    == C!app(OneApp("a", x), "b", y)
Linked(c, l)  == C!link(c, l)

Empty == Parsed(C!new)

Networks == {Parsed(c) : c \in
  {Linked(Linked(Both(Source60, Sink), Forth), Tight),
   Linked(Linked(Both(Source120, Sink), Tight), Forth2),
   Linked(Linked(Linked(Both(Source60, Sink), Forth2), Back), Loop),
   Linked(Linked(C!app(Both(Source60, Sink), "b", Nic), Forth), Back),
   OneApp("b", Sink),
   Linked(OneApp("a", Source60), Forth)}}

SameName ==
  {Parsed(Linked(Both(Source60, Sink), Forth)), Parsed(Linked(Both(Other60, Sink), Forth))}

\* All sequences of seven tokens, the fewest a link has, and of eight; words differ.
Words == <<"p", "q", "r", "s", "t", "u", "v", "w">>

Spellings ==
  {[n \in DOMAIN t |-> IF t[n] = "word" THEN Words[n] ELSE t[n]] :
     t \in {u \in UNION {[1 .. n -> {"word", ".", "->", " "}] : n \in 7 .. 8} :
              \A n \in 1 .. Len(u) - 1 : ~(u[n] = "word" /\ u[n + 1] = "word")}}

\* What configure() compares by equality of strings, it compares by meaning:
\* a link has one canonical spelling, which parse_link() understands.
ASSUME SpellingsAgree ==
  \A s \in {t \in Spellings : C!CanParseLink(t)} :
    LET canonical == C!canonical_link(s)
    IN  /\ C!CanParseLink(canonical) /\ C!parse_link(canonical) = C!parse_link(s)
        /\ C!canonical_link(canonical) = canonical

=============================================================================
