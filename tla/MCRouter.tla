------------------------------- MODULE MCRouter -------------------------------
EXTENDS Router, TLC

CONSTANTS mkv, MKV, srt

N(stem, ext) == [stem |-> stem, ext |-> ext]
Dir(stem) == N(stem, NoDot)
Tv == <<Dir("tv")>>
Show == Tv \o <<Dir("show")>>

MCLower == (mkv :> mkv) @@ (MKV :> mkv) @@ (srt :> srt)
MCIgnore == {Dir("@eaDir")}
MCServerRow == [enabled : {TRUE}, mode : {"targeted", "library"},
                types : {{}, {"created"}}]
               \cup [enabled : {FALSE}, mode : {"targeted"}, types : {{"created"}}]
MCFolderRow == [server : {1, 2}, path : {<<>>, Tv, Show}, exts : {{}, {mkv}},
                library : {"A", "B"}, enabled : {TRUE}]
               \cup [server : {1}, path : {Tv}, exts : {{}}, library : {"A"},
                     enabled : {FALSE}]
MCEventPath == {Tv, Show, Tv \o <<N("f", MKV)>>, Show \o <<N("f", mkv)>>,
                Show \o <<Dir("s1"), N("f", srt)>>, Show \o <<N("", mkv)>>,
                <<Dir("tvs"), N("f", mkv)>>, Show \o <<Dir("@eaDir"), N("f", mkv)>>}
===============================================================================
