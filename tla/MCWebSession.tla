---------------------------- MODULE MCWebSession ----------------------------
(* Instances of WebSession for TLC.                                        *)
EXTENDS WebSession, TLC

Symmetric == Permutations(Tabs) \cup Permutations(Calls)

Nameless(r) == [r EXCEPT !.name = Plain]
Unnamed(r) == [r EXCEPT !.user = Nameless(@)]

\* No property says anything of names and revoked tokens in the rough world, and no
\* action reads them there but to hand them on: SaveProfile asks for a name other than
\* the provider's, of which there is always one.  So states that differ in nothing
\* else have the same behaviours.
View ==
  IF world = "calm" THEN vars
  ELSE <<logins, Unnamed(store), [t \in Tabs |-> Unnamed(tabs[t])],
         [c \in Calls |-> Nameless(calls[c])]>>
=============================================================================
