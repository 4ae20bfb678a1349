------------------------------- MODULE MCText -------------------------------
(***************************************************************************)
(* The constants of Conversions for TLC: every short channel, and bounded      *)
(* samples for each of the pure functions.                                   *)
(***************************************************************************)
EXTENDS Conversions

UpTo(n, S) == UNION {[1..k -> S] : k \in 0..n}
MCStream == UpTo(6, {"a", "b", LineFeed})

MCUtf8 == Seq(0..127)

(* The letters u and a, for unsafe names, d for `dns-updown` and f for `force`.  *)
MCUnsafeName == {<<46>>, <<46, 26>>}
MCDnsUpdown == <<29>>
MCSafeParam == {<<31>>}

-----------------------------------------------------------------------------
(* A value without line ends, as a client's entry gives it.                   *)
Value(n) == UpTo(n, {10, Space, Quote, DoubleQuote, Backslash})
SomeCredentials == [kind : {"credential"}, realm : Value(1), value : Value(3)]

Ascii == UpTo(4, {0, 63, 64, 127})
Texts == UpTo(2, {10, Colon, Comma, Quote, Bracket, Space})
SomeDynamic == [kind : {"dynamic"}, realm : {<<10>>}, flags : {<<>>, <<R>>, <<E>>, <<R, Comma, E>>},
                state : {<<10>>, <<10, Space>>}, user : UpTo(3, {0, 63, 64, 127}), text : Texts]
SomeStatic == [kind : {"static"}, realm : {<<10>>}, echo : {One, 52}, text : Texts]
SomeReplies == [kind : {"reply"}, password : Ascii, response : UpTo(1, {0, 127})]

Configs == UpTo(2, {46, 26, 29, 31, Space, LF, Backslash, Quote, DoubleQuote, Hash, Semicolon, Slash, Star})
Pairs == [kind : {"pair"}, first : Configs, second : Configs]

Letters == UNION {[1..n -> [ch : {46, 26, 29}, style : Style]] : n \in 1..2}
Options == [kind : {"option"},
            before : {<<>>, <<Hash, 46>>, <<Slash, 26>>, <<Hash, Backslash>>, <<46, LF, DoubleQuote, Backslash>>},
            indent : {<<>>, <<Space>>}, letters : Letters,
            following : {<<>>, <<Tab, 46>>, <<Space, Hash, Quote>>, <<Space, 31>>, <<Space, Backslash>>,
                         <<LF>>, <<LF, 29>>, <<LF, Slash, 26>>, <<Space, Backslash, LF, 46>>,
                         <<Space, Hash, Backslash, LF, 46, LF, 26>>}]

SomeRows == [kind : {"rows"}, rows : UpTo(4, Line)]
SomeNames == [kind : {"name"}, safe : BOOLEAN,
              name : UpTo(3, {LF, CR, Space, SafeKey, NameKey, TrueWord, 26})]

MCSamples == SomeCredentials \cup SomeDynamic \cup SomeStatic \cup SomeReplies
               \cup Pairs \cup Options \cup SomeRows \cup SomeNames
=============================================================================
