---------------------------- MODULE MCInclusion ----------------------------
(* Instances of Inclusion: a source file, two headers beside it that may   *)
(* include each other and themselves, and a header in two directories of   *)
(* the search path, of which the first may wrap the second.                *)
EXTENDS Inclusion, TLC

T == [kind |-> "text"]
Quote(name) == [kind |-> "include", form |-> "quote", next |-> FALSE, name |-> name]
Angle(name) == [kind |-> "include", form |-> "angle", next |-> FALSE, name |-> name]
Wrapped(form) == [kind |-> "include", form |-> form, next |-> TRUE, name |-> <<"x.h">>]
Guard(n, body) ==
  <<[kind |-> "ifndef", name |-> n], [kind |-> "define", name |-> n]>> \o body \o <<[kind |-> "endif"]>>

MainPath == <<"main.c">>
A == Quote(<<"a.h">>)
B == Quote(<<"b.h">>)
X == Angle(<<"x.h">>)
Alias == Quote(<<"inc", "..", "a.h">>)
Missing == {Quote(<<"none.h">>), Angle(<<"none.h">>)}

Bodies(S) == {<<l>> : l \in S} \cup {<<l, m>> : l, m \in S}
MainBodies == {<<T, A, T, B>>, <<A, Alias>>, <<X, A, X>>, <<B, X, T>>} \cup {<<T, m>> : m \in Missing}
ABodies == Bodies({T, A, B, X}) \cup {Guard("A", b) : b \in Bodies({T, A, B, X})}
BBodies == {<<T>>, <<T, A>>, <<A, B>>} \cup {Guard("B", b) : b \in {<<A, T>>, <<T, A, T>>}}
XBodies == {<<T, Wrapped("angle")>>, <<Wrapped("quote"), T>>, Guard("X", <<T, Wrapped("angle"), T>>)}

Files(main, a, b, x) ==
  (<<"main.c">> :> main) @@ (<<"a.h">> :> a) @@ (<<"b.h">> :> b) @@
  (<<"inc", "x.h">> :> x) @@ (<<"usr", "x.h">> :> <<T>>)
CommandLines ==
  {[files |-> Files(main, a, b, x), include_paths |-> <<<<"lib">>, <<"inc">>, <<"usr">>>>,
    system |-> deps[1], user |-> deps[2]] :
     main \in MainBodies, a \in ABodies, b \in BBodies, x \in XBodies,
     deps \in {<<TRUE, TRUE>>, <<FALSE, TRUE>>}}

(* The files of the instance are among those of InclusionTextInPlace.      *)
ASSUME FilesWellFormed == WellFormed
=============================================================================
