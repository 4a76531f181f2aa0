------------------------------ MODULE MCCalls ---------------------------
(***************************************************************************)
(* Calls of cryfs with the combinations of options that interact, and the  *)
(* answers a user may give.                                                *)
(***************************************************************************)
EXTENDS Integers, Sequences

\* oldest first
MCReleaseOrder == <<
    {<<"0", ".", "9", "-", "alpha">>},
    {<<"0", ".", "9", "-", "rc1">>},
    {<<"0", ".", "9">>, <<"0", ".", "9", ".", "0">>, <<"0", ".", "9", "+", "unknown">>},
    {<<"0", ".", "9", "+", "3", ".", "gabc", ".", "dirty">>},
    {<<"0", ".", "9", ".", "1">>},
    {<<"0", ".", "10", "-", "stable">>},
    {<<"0", ".", "10", ".", "0">>},
    {<<"1">>, <<"1", ".", "0">>}>>

MCNewestVersions == UNION {MCReleaseOrder[i] : i \in DOMAIN MCReleaseOrder} \cup {<<"latest">>, <<"1", "+", "2">>}
MCVersion == <<"0", ".", "10", ".", "0">>

Opt(o, v) == [o |-> o, v |-> v]
Flag(o) == [o |-> o, v |-> <<>>]
Dirs == <<Opt("", <<"base">>), Opt("", <<"/", "mnt">>)>>

ProgramCall(program, args, noninteractive, configExists, base, mount) ==
    [program |-> program, args |-> args, version |-> MCVersion, noUpdateCheck |-> TRUE,
     frontend |-> IF noninteractive THEN "noninteractive" ELSE "none", configExists |-> configExists, baseDir |-> base, mountDir |-> mount]

\* versions: nothing but the update check happens
VersionCalls ==
    {[ProgramCall("cryfs", <<Flag("version")>>, FALSE, FALSE, "there", "there") EXCEPT !.version = v, !.noUpdateCheck = FALSE] :
        v \in MCNewestVersions \ {<<"latest">>, <<"1", "+", "2">>}}

\* settings: every subset of the three settings is given on the command line
SettingsCalls ==
    {ProgramCall("cryfs", Dirs \o c \o b \o m, n, FALSE, "there", "there") :
        c \in {<<>>, <<Opt("cipher", <<"weak">>)>>}, b \in {<<>>, <<Opt("blocksize", <<"3">>)>>},
        m \in {<<>>, <<Opt("missing-block-is-integrity-violation", <<"true">>)>>}, n \in BOOLEAN}

\* directories: missing, inaccessible, created, one inside the other
DirectoryCalls ==
    {ProgramCall("cryfs", Dirs \o f, n, TRUE, b, m) :
        f \in {<<>>, <<Flag("create-missing-basedir"), Flag("create-missing-mountpoint")>>}, n \in BOOLEAN,
        b \in {"there", "missing", "inaccessible"}, m \in {"there", "missing", "inaccessible"}}
    \cup {ProgramCall("cryfs", <<Opt("", <<"base">>), Opt("", m)>>, TRUE, TRUE, "there", "there") :
            m \in {<<"/", "home">>, <<"/", "home", "base">>, <<"base", "mnt">>, <<"/">>, <<"bas">>}}

\* fuse options: behind the double dash, and with -o
RawWords == {<<"-f">>, <<"-d">>, <<"-ofsname=mine">>, <<"-osubtype=mine">>}
Lists == {<<"relatime">>, <<"relatime", "fsname=mine">>, <<"noatime", "fsname=mine">>, <<"fsname=mine">>, <<"allow_other", "nodiratime">>, <<"subtype=mine", "strictatime">>}
Raw(words) == [i \in DOMAIN words |-> Opt("fuse", words[i])]
FuseCalls ==
    {ProgramCall("cryfs", Dirs \o f \o o \o <<Flag("--")>> \o Raw(r), TRUE, TRUE, "there", "there") :
        f \in {<<>>, <<Flag("foreground"), Opt("logfile", <<"log">>)>>, <<Flag("foreground")>>},
        o \in {<<>>} \cup {<<Opt("fuse-option", l)>> : l \in Lists}
                     \cup {<<Opt("fuse-option", l), Opt("fuse-option", k)>> : l, k \in Lists},
        r \in {<<>>, <<<<"-o">>, <<"relatime", "allow_other">>>>} \cup {<<w>> : w \in RawWords}
              \cup {<<w, x>> : w, x \in RawWords} \cup {<<w, <<"-o">>, <<"atime">>, x>> : w, x \in {<<"-f">>, <<"-d">>}}}

\* mistakes, help, and cryfs-unmount
OtherCalls ==
    {ProgramCall("cryfs", a, FALSE, FALSE, "there", "there") :
        a \in {<<>>, <<Opt("", <<"base">>)>>, Dirs \o <<Opt("", <<"third">>)>>, Dirs \o <<Flag("help")>>, <<Flag("show-ciphers")>>,
               Dirs \o <<Flag("unknown")>>, Dirs \o <<Flag("foreground"), Flag("foreground")>>,
               Dirs \o <<Opt("cipher", <<"unknown">>)>>, Dirs \o <<Opt("blocksize", <<"many">>)>>,
               Dirs \o <<Opt("missing-block-is-integrity-violation", <<"maybe">>)>>,
               Dirs \o <<Opt("base-dir", <<"base">>)>>}}
    \cup {ProgramCall("cryfs-unmount", a, FALSE, FALSE, "there", m) :
            a \in {<<>>, <<Opt("", <<"mnt">>)>>, <<Opt("", <<"mnt">>), Flag("immediate")>>, <<Flag("help")>>, <<Flag("foreground")>>, Dirs},
            m \in {"there", "missing"}}

AllCalls == VersionCalls \cup SettingsCalls \cup DirectoryCalls \cup FuseCalls \cup OtherCalls

FirstCall == ProgramCall("cryfs", <<>>, FALSE, FALSE, "there", "there")

MCCiphers == <<"strong", "weak">>
MCBlocksizes == <<4, 8, 16>>
=============================================================================
