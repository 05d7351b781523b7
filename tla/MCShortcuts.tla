----------------------------- MODULE MCShortcuts -----------------------------
EXTENDS Shortcuts

Avx == "PROTON_AVX"

MCMethods ==
  {[mode |-> "proton", params |-> <<>>],
   [mode |-> "runtime", params |-> <<>>],
   [mode |-> "runtime", params |-> <<Avx>>]}

\* Nothing; arguments; an environment, a wrapper and arguments; a param that is set,
\* and one that conflicts; a wrapper written by hand; a variable without a command.
MCPlain ==
  {<<>>,
   <<Word("-windowed")>>,
   <<Assignment("MANGOHUD", "1"), Word("gamescope"), Command, Word("-x")>>,
   <<Assignment(Avx, "1"), Command>>,
   <<Assignment(Avx, "0"), Command>>,
   <<BareWrapper, Command>>,
   <<Assignment("MANGOHUD", "1")>>}

\* Few launch options, for the runs about what becomes of them.
FewPlain == {<<>>, <<Word("-windowed"), Command>>}
=============================================================================
