--------------------------- MODULE MCHttpRouting ----------------------------
\* HttpRouting for TLC.  Characters: a, b, a space and ~ (which sorts after the
\* braces).
EXTENDS HttpRouting

a == 97
b == 98
x == 120
til == 126
space == 32
Arg == <<Slash, LBrace, x, RBrace>>
StarArg == <<Slash, LBrace, Star, RBrace>>

\* "//a", "/", "/a/", "/*", "/?", "/a*", "/*b", "/a/~", "/a/{x}", "/?/{*}", "/{x}",
\* "/a/{x}/{}" and "/ ": a '*' in a key is no wildcard.
Rules == {
  <<Slash, Slash, a>>, Root, <<Slash, a, Slash>>, <<Slash, Star>>, <<Slash, Quest>>,
  <<Slash, a, Star>>, <<Slash, Star, b>>, <<Slash, a, Slash, til>>, <<Slash, a>> \o Arg,
  <<Slash, Quest>> \o StarArg, Arg, <<Slash, a>> \o Arg \o <<Slash, LBrace, RBrace>>,
  <<Slash, space>> }

MCRuleSets ==
  {<<r>> : r \in Rules} \cup
  {<< <<Slash, Star>>, <<Slash, a>> >>, << <<Slash, a>>, <<a>>, <<Slash, b>> >>, << <<>> >>}

MCNames == {<<a>>, <<Slash, a>>}

\* "/a/ /b" goes as "/a/b"; "/a*" is not without a star.
MCPaths == {<<>>, Root, <<Slash, a>>, <<Slash, a, b>>, <<Slash, a, Slash, space, Slash, b>>,
            <<Slash, a, Slash, til>>, <<Slash, a, Slash, b, Slash, a>>,
            <<Slash, a, Star>>}
=============================================================================
