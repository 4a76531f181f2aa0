---------------------------- MODULE CommandLine ----------------------------
(***************************************************************************)
(* One call of `cryfs` or `cryfs-unmount`, from the argument vector to the *)
(* argument vector handed to libfuse: the update check, the parser of the  *)
(* command line, the questions of the console (cryfs-cli/, cpp-utils/io/,  *)
(* CryConfigConsole.cpp), and Fuse::runInForeground / runInBackground.     *)
(* What happens to the file system itself is in the module Mount.          *)
(*                                                                         *)
(* A word of the command line is a sequence of its comma-separated or      *)
(* slash-separated elements.  An argument is a record [o, v]: the option's *)
(* long name ("" for a positional argument, "--" for the double dash) and  *)
(* its value; what follows the double dash is given as o = "fuse".         *)
(***************************************************************************)
EXTENDS Integers, Sequences, SequencesExt, FiniteSets

CONSTANTS
    Calls,          \* the calls: program, args, version and the environment they run in
    NewestVersions, \* the newest versions the server may announce
    Ciphers,        \* CryCiphers::supportedCipherNames(), in order
    CiphersWithWarning,
    Blocksizes,     \* the block sizes of the menu, in order
    DefaultCipher,
    DefaultBlocksize,
    Lines,          \* what a user may type at a question
    Passwords,      \* what a user may type as a password; "" is the empty one
    MaxPrompts,     \* bound: prompts answered in one call
    ReleaseOrder,   \* for UpdateIsAnnounced: sets of equal versions, oldest first
    None

VARIABLES
    call,       \* the call: argument vector, environment, gitversion::VersionString()
    pc,         \* where main() is
    told,       \* the newest version the server announced and what _showVersion() printed
    options,    \* ProgramOptions
    asked,      \* the prompts answered so far, [q, a]
    settings,   \* the configuration of a new file system, and _useDefaultSettings
    password,   \* what the key is derived from
    fuse,       \* how libfuse was started: its argv, the atime options and the logger
    unmounted,  \* how fusermount was called
    exit        \* the exit code

clvars == <<call, pc, told, options, asked, settings, password, fuse, unmounted, exit>>

NoFuse == [argv |-> <<>>, logger |-> None, atime |-> {}]
NoSettings == [cipher |-> None, blocksize |-> None, missing |-> None, useDefault |-> None]

CLInit ==
    /\ call \in Calls
    /\ pc = "start"
    /\ told = [newest |-> <<>>, printed |-> {}]
    /\ options = None
    /\ asked = <<>>
    /\ settings = NoSettings
    /\ password = None
    /\ fuse = NoFuse
    /\ unmounted = None
    /\ exit = None

Exit(code) == pc' = "exit" /\ exit' = code
GoOn(where) == pc' = where /\ UNCHANGED exit

(***************************************************************************)
(* gitversion: a version is cut at its delimiters.  An invalid one makes   *)
(* the parser or std::stoul throw a logic_error.                           *)
(***************************************************************************)
\* std::stoul and std::stoi of the words that are numbers
Numbers == [w \in {"0", "1", "2", "3", "9", "10", " 1", "-1"} |->
            CASE w = "0" -> 0 [] w \in {"1", " 1"} -> 1 [] w = "2" -> 2 [] w = "3" -> 3
              [] w = "9" -> 9 [] w = "10" -> 10 [] w = "-1" -> -1]

\* the tags in the order of strcmp
Tags == <<"alpha", "rc1", "stable">>

\* <<before the delimiter>> or <<before, after>> it
_splitAt(word, delimiter) ==
    IF \E i \in DOMAIN word : word[i] = delimiter
    THEN LET i == CHOOSE i \in DOMAIN word : word[i] = delimiter /\ \A j \in 1 .. i - 1 : word[j] # delimiter
         IN <<SubSeq(word, 1, i - 1), SubSeq(word, i + 1, Len(word))>>
    ELSE <<word>>

stoul(word) == IF Len(word) = 1 /\ word[1] \in DOMAIN Numbers THEN Numbers[word[1]] ELSE -1

\* a missing minor or hotfix version is 0
_extractMajorMinorHotfix(word) ==
    LET major == _splitAt(word, ".")
        minor == IF Len(major) = 1 THEN <<<<"0">>>> ELSE _splitAt(major[2], ".")
        hotfix == IF Len(minor) = 1 THEN <<"0">> ELSE minor[2]
    IN <<stoul(major[1]), stoul(minor[1]), stoul(hotfix)>>

_extractMajorMinorHotfixTag(word) ==
    LET parts == _splitAt(word, "-")
    IN [number |-> _extractMajorMinorHotfix(parts[1]), tag |-> IF Len(parts) = 1 THEN <<>> ELSE parts[2]]

_extractCommitsSinceTag(word) ==
    LET parts == _splitAt(word, ".")
    IN IF Len(parts) = 1 \/ parts[2] = <<>> \/ parts[2][1] # "gabc" THEN -1 ELSE stoul(parts[1])

parseVersion(word) ==
    LET parts == _splitAt(word, "+")
        dev == Len(parts) = 2
        number == _extractMajorMinorHotfixTag(parts[1])
    IN [number |-> number.number, tag |-> number.tag, isDevVersion |-> dev,
        isStableVersion |-> ~dev /\ number.tag \in {<<>>, <<"stable">>},
        commitsSinceTag |-> IF dev /\ parts[2] # <<"unknown">> THEN _extractCommitsSinceTag(parts[2]) ELSE 0]

IsValid(v) == v.commitsSinceTag >= 0 /\ \A i \in 1 .. 3 : v.number[i] >= 0

TagIndex(tag) == CHOOSE i \in DOMAIN Tags : Tags[i] = tag[1]

_versionTagCompare(tag1, tag2) ==
    IF tag1 = <<>> THEN IF tag2 = <<>> THEN 0 ELSE 1
    ELSE IF tag2 = <<>> THEN -1 ELSE TagIndex(tag1) - TagIndex(tag2)

IsOlder(v1, v2) ==
    LET n1 == v1.number
        n2 == v2.number
        tags == _versionTagCompare(v1.tag, v2.tag)
    IN \/ n1[1] < n2[1]
       \/ n1[1] = n2[1] /\ (\/ n1[2] < n2[2]
                            \/ n1[2] = n2[2] /\ (\/ n1[3] < n2[3]
                                                 \/ n1[3] = n2[3] /\ (\/ 0 > tags
                                                                      \/ 0 = tags /\ v1.commitsSinceTag < v2.commitsSinceTag)))

isOlderThan(word1, word2) == IsOlder(parseVersion(word1), parseVersion(word2))

(***************************************************************************)
(* Cli::_showVersion().  The server's answer is what VersionChecker reads  *)
(* of it: whether it came, whether it is JSON, the field                   *)
(* version_info.current (<<>> when it is missing) and the versions under   *)
(* "warnings".                                                             *)
(***************************************************************************)
isNoninteractive == call.frontend = "noninteractive"

Responses == [came : BOOLEAN, isJson : BOOLEAN, current : NewestVersions \cup {<<>>}, warnings : {{}, {call.version}}]

\* an error, a timeout or an answer that is not JSON is no information
_getVersionInfo(response) == response.came /\ response.isJson

newestVersion(response) == IF _getVersionInfo(response) THEN response.current ELSE <<>>

securityWarningFor(response, version) == _getVersionInfo(response) /\ version \in response.warnings

_versionWarnings(version) ==
    IF parseVersion(version).isDevVersion THEN {"development version"}
    ELSE IF ~parseVersion(version).isStableVersion THEN {"experimental version"} ELSE {}

_checkForUpdates(response) ==
    (IF newestVersion(response) = <<>> THEN {"could not check"}
     ELSE IF isOlderThan(call.version, newestVersion(response)) THEN {"please update"} ELSE {})
    \cup IF securityWarningFor(response, call.version) THEN {"security warning"} ELSE {}

\* an invalid version makes the comparison throw, and main() ends
_showVersion ==
    IF call.noUpdateCheck \/ isNoninteractive
    THEN told' = [told EXCEPT !.printed = _versionWarnings(call.version)] /\ GoOn("parse")
    ELSE \E response \in Responses :
            LET newest == newestVersion(response)
            IN IF newest # <<>> /\ ~IsValid(parseVersion(newest))
               THEN Exit("UnspecifiedError") /\ UNCHANGED told
               ELSE /\ told' = [newest |-> newest, printed |-> _versionWarnings(call.version) \cup _checkForUpdates(response)]
                    /\ GoOn("parse")

ShowVersion ==
    /\ pc = "start"
    /\ IF call.program = "cryfs" THEN _showVersion ELSE GoOn("parse") /\ UNCHANGED told
    /\ UNCHANGED <<call, options, asked, settings, password, fuse, unmounted>>

(***************************************************************************)
(* The parsers.  boost::program_options is external: it refuses an option  *)
(* it does not know, an option given twice (unless it is composed), a      *)
(* positional argument too many and a value of the wrong type.             *)
(***************************************************************************)
Index(items, x) == IF \E i \in DOMAIN items : items[i].o = x
                   THEN CHOOSE i \in DOMAIN items : items[i].o = x /\ \A j \in 1 .. i - 1 : items[j].o # x
                   ELSE Len(items) + 1

\* what comes before the first double dash and the words after it
splitAtDoubleDash(items) ==
    LET i == Index(items, "--")
        after == SubSeq(items, i + 1, Len(items))
    IN <<SubSeq(items, 1, i - 1), [j \in DOMAIN after |-> after[j].v]>>

_addAllowedOptions ==
    {"help", "config", "foreground", "fuse-option", "cipher", "blocksize", "missing-block-is-integrity-violation",
     "allow-integrity-violations", "allow-filesystem-upgrade", "allow-replaced-filesystem",
     "create-missing-basedir", "create-missing-mountpoint", "show-ciphers", "unmount-idle", "logfile", "version"}
_addPositionalOptions == <<"base-dir", "mount-dir">>
_addAllowedUnmountOptions == {"immediate", "help", "version"}
_addPositionalUnmountOptions == <<"mount-dir">>

\* the option an argument belongs to, given the names of the positional ones
NameOf(items, i, positional) ==
    LET n == Cardinality({j \in 1 .. i : items[j].o = ""})
    IN IF items[i].o # "" THEN items[i].o ELSE IF n <= Len(positional) THEN positional[n] ELSE "too many"

po_store(items, allowed, positional) ==
    /\ \A i \in DOMAIN items : NameOf(items, i, positional) \in allowed \cup {positional[k] : k \in DOMAIN positional}
    /\ \A i, j \in DOMAIN items :
          i # j /\ NameOf(items, i, positional) = NameOf(items, j, positional) => items[i].o = "fuse-option"
    /\ \A i \in DOMAIN items :
          /\ items[i].o = "blocksize" => stoul(items[i].v) >= 0
          /\ items[i].o = "missing-block-is-integrity-violation" => items[i].v \in {<<"true">>, <<"false">>}

\* the values the command line gives an option, in order
Values(items, name, positional) ==
    LET at == {i \in DOMAIN items : NameOf(items, i, positional) = name}
    IN [k \in 1 .. Cardinality(at) |-> items[CHOOSE i \in at : Cardinality({j \in at : j < i}) = k - 1].v]

Has(items, name, positional) == Values(items, name, positional) # <<>>

_parseOptions(items, allowed, positional) ==
    IF ~po_store(items, allowed, positional) THEN "InvalidArguments"
    ELSE IF \E o \in {"help", "show-ciphers", "version"} : Has(items, o, positional) THEN "Success" ELSE "parsed"

\* boost::filesystem::absolute; the working directory is /home
absolute(path) == IF path[1] = "/" THEN path ELSE <<"/", "home">> \o path
absoluteAll(paths) == [i \in DOMAIN paths |-> absolute(paths[i])]

\* options that were not given are <<>>, others <<value>>
ProgramOptions(items, afterDoubleDash) ==
    LET v(name) == Values(items, name, _addPositionalOptions)
    IN [baseDir |-> absolute(v("base-dir")[1]), mountDir |-> absolute(v("mount-dir")[1]),
        configFile |-> absoluteAll(v("config")), logFile |-> absoluteAll(v("logfile")),
        foreground |-> v("foreground") # <<>>,
        createMissingBasedir |-> v("create-missing-basedir") # <<>>,
        createMissingMountpoint |-> v("create-missing-mountpoint") # <<>>,
        cipher |-> v("cipher"), blocksize |-> v("blocksize"),
        missing |-> v("missing-block-is-integrity-violation"),
        fuseOptions |-> afterDoubleDash \o FlattenSeq([i \in DOMAIN v("fuse-option") |-> <<<<"-o">>, v("fuse-option")[i]>>])]

_checkValidCipher(items) ==
    \A i \in DOMAIN items : items[i].o = "cipher" => \E k \in DOMAIN Ciphers : items[i].v = <<Ciphers[k]>>

\* Parser::parse()
Parse(items) ==
    LET parsed == _parseOptions(items, _addAllowedOptions, _addPositionalOptions)
    IN IF parsed # "parsed" THEN parsed
       ELSE IF ~Has(items, "base-dir", _addPositionalOptions) \/ ~Has(items, "mount-dir", _addPositionalOptions)
               \/ ~_checkValidCipher(items) THEN "InvalidArguments" ELSE "parsed"

ParseArguments ==
    /\ pc = "parse" /\ call.program = "cryfs"
    /\ LET split == splitAtDoubleDash(call.args)
       IN IF Parse(split[1]) # "parsed"
          THEN Exit(Parse(split[1])) /\ UNCHANGED options
          ELSE options' = ProgramOptions(split[1], split[2]) /\ GoOn("base directory")
    /\ UNCHANGED <<call, told, asked, settings, password, fuse, unmounted>>

(***************************************************************************)
(* cryfs-unmount: the mount directory is passed on as it was given.        *)
(***************************************************************************)
_parseUnmountOptions(items) == _parseOptions(items, _addAllowedUnmountOptions, _addPositionalUnmountOptions)

ParseUnmount(items) ==
    IF _parseUnmountOptions(items) # "parsed" THEN _parseUnmountOptions(items)
    ELSE IF Has(items, "mount-dir", _addPositionalUnmountOptions) THEN "parsed" ELSE "InvalidArguments"

\* the arguments of fusermount
Unmount(path, force) == IF force THEN <<<<"-u">>, path>> ELSE <<<<"-u">>, <<"-z">>, path>>

\* main_unmount.cpp turns "Could not unmount filesystem" into UnspecifiedError
UnmountExit == \E returncode \in {0, 1} : Exit(IF returncode = 0 THEN "Success" ELSE "UnspecifiedError")

RunUnmount ==
    /\ pc = "parse" /\ call.program = "cryfs-unmount"
    /\ IF ParseUnmount(call.args) # "parsed" THEN Exit(ParseUnmount(call.args)) /\ UNCHANGED unmounted
       ELSE IF call.mountDir = "missing" THEN Exit("InaccessibleMountDir") /\ UNCHANGED unmounted
       ELSE /\ unmounted' = Unmount(Values(call.args, "mount-dir", _addPositionalUnmountOptions)[1],
                                    Has(call.args, "immediate", _addPositionalUnmountOptions))
            /\ UnmountExit
    /\ UNCHANGED <<call, told, options, asked, settings, password, fuse>>

(***************************************************************************)
(* The consoles.  IOStreamConsole asks until a line parses; a line that    *)
(* does not parse changes nothing.  NoninteractiveConsole takes the        *)
(* default of a yes/no question, and throws on a multiple choice question. *)
(***************************************************************************)
_parseYesNo(line) ==
    IF line \in {"Y", "y", "Yes", "yes"} THEN <<TRUE>> ELSE IF line \in {"N", "n", "No", "no"} THEN <<FALSE>> ELSE <<>>

\* the cast to unsigned makes a negative number larger than every maximum
_parseUIntWithMinMax(line, min, max) ==
    IF line \in DOMAIN Numbers /\ Numbers[line] >= min /\ Numbers[line] <= max THEN <<Numbers[line]>> ELSE <<>>

CanPrompt == Len(asked) < MaxPrompts
Prompted(q, a) == CanPrompt /\ asked' = Append(asked, [q |-> q, a |-> a])

\* asked again until the line parses
_askForChoice(q, line, parsed) == parsed # <<>> /\ Prompted(q, line)

\* NoninteractiveConsole: a multiple choice question would throw
NoninteractiveAnswer(default, value) == isNoninteractive /\ value = default /\ UNCHANGED asked

askYesNo(q, default, value) ==
    \/ NoninteractiveAnswer(default, value)
    \/ /\ ~isNoninteractive
       /\ \E line \in Lines : _parseYesNo(line) = <<value>> /\ _askForChoice(q, line, _parseYesNo(line))

\* the index, starting at 1
ask(q, n, index) ==
    /\ ~isNoninteractive
    /\ \E line \in Lines :
          /\ _parseUIntWithMinMax(line, 1, n) = <<index>>
          /\ _askForChoice(q, line, _parseUIntWithMinMax(line, 1, n))

\* both consoles let the user type it
askPassword(q, p) == Prompted(q, p)

(***************************************************************************)
(* _sanityChecks(): each directory is there, or is created, or the call    *)
(* fails; then the base directory must not be inside the mount directory.  *)
(***************************************************************************)
_pathContains(parent, child) == \E n \in 1 .. Len(child) : SubSeq(child, 1, n) = parent

DirectoryIs(state, create, q, code, next) ==
    \/ state = "there" /\ GoOn(next) /\ UNCHANGED asked
    \/ state = "inaccessible" /\ Exit(code) /\ UNCHANGED asked
    \/ state = "missing" /\ create /\ GoOn(next) /\ UNCHANGED asked
    \/ state = "missing" /\ ~create /\ \E yes \in BOOLEAN :
            askYesNo(q, FALSE, yes) /\ IF yes THEN GoOn(next) ELSE Exit(code)

SanityChecks ==
    /\ \/ /\ pc = "base directory"
          /\ DirectoryIs(call.baseDir, options.createMissingBasedir, "create basedir", "InaccessibleBaseDir", "mount directory")
       \/ /\ pc = "mount directory"
          /\ DirectoryIs(call.mountDir, options.createMissingMountpoint, "create mountdir", "InaccessibleMountDir", "containment")
       \/ /\ pc = "containment"
          /\ UNCHANGED asked
          /\ IF _pathContains(options.mountDir, options.baseDir) THEN Exit("BaseDirInsideMountDir")
             ELSE GoOn(IF call.configExists THEN "password" ELSE "cipher")
    /\ UNCHANGED <<call, told, options, settings, password, fuse, unmounted>>

(***************************************************************************)
(* CryConfigCreator::create() with CryConfigConsole: cipher, block size,   *)
(* missing blocks; "Use default settings?" is asked at the first of them   *)
(* that the command line leaves open, and its answer kept.                 *)
(***************************************************************************)
_checkUseDefaultSettings ==
    /\ \/ pc = "cipher" /\ options.cipher = <<>>
       \/ pc = "blocksize" /\ options.blocksize = <<>>
       \/ pc = "missing block" /\ options.missing = <<>>
    /\ settings.useDefault = None
    /\ \E yes \in BOOLEAN : askYesNo("default settings", TRUE, yes) /\ settings' = [settings EXCEPT !.useDefault = yes]
    /\ UNCHANGED <<call, pc, told, options, password, fuse, unmounted, exit>>

Take(key, value, next) == settings' = [settings EXCEPT ![key] = value] /\ GoOn(next)

\* the value from the command line, the default, or what the console asks for
Generate(key, given, value, default, next, Asked) ==
    \/ given # <<>> /\ Take(key, value, next) /\ UNCHANGED asked
    \/ given = <<>> /\ settings.useDefault = TRUE /\ Take(key, default, next) /\ UNCHANGED asked
    \/ given = <<>> /\ settings.useDefault = FALSE /\ Asked

\* _showWarningForCipherAndReturnIfOk() comes next for a cipher that has a warning
_askCipher ==
    \E i \in DOMAIN Ciphers :
        /\ ask("cipher", Len(Ciphers), i)
        /\ Take("cipher", Ciphers[i], IF Ciphers[i] \in CiphersWithWarning THEN "cipher warning" ELSE "blocksize")

_generateCipher ==
    /\ pc = "cipher"
    /\ Generate("cipher", options.cipher, options.cipher[1][1], DefaultCipher, "blocksize", _askCipher)
    /\ UNCHANGED <<call, told, options, password, fuse, unmounted>>

_showWarningForCipherAndReturnIfOk ==
    /\ pc = "cipher warning"
    /\ \E yes \in BOOLEAN : askYesNo("cipher warning", TRUE, yes) /\ GoOn(IF yes THEN "blocksize" ELSE "cipher")
    /\ UNCHANGED <<call, told, options, settings, password, fuse, unmounted>>

_askBlocksizeBytes ==
    \E i \in DOMAIN Blocksizes : ask("blocksize", Len(Blocksizes), i) /\ Take("blocksize", Blocksizes[i], "missing block")

_generateBlocksizeBytes ==
    /\ pc = "blocksize"
    /\ Generate("blocksize", options.blocksize, stoul(options.blocksize[1]), DefaultBlocksize, "missing block", _askBlocksizeBytes)
    /\ UNCHANGED <<call, told, options, password, fuse, unmounted>>

_askMissingBlockIsIntegrityViolation ==
    \E yes \in BOOLEAN : askYesNo("missing block", FALSE, yes) /\ Take("missing", yes, "password")

_generateMissingBlockIsIntegrityViolation ==
    /\ pc = "missing block"
    /\ Generate("missing", options.missing, options.missing[1] = <<"true">>, FALSE, "password", _askMissingBlockIsIntegrityViolation)
    /\ UNCHANGED <<call, told, options, password, fuse, unmounted>>

(***************************************************************************)
(* The password: asked once in noninteractive mode, until it is not empty  *)
(* for an existing file system, and until it is confirmed for a new one.   *)
(***************************************************************************)
_checkPassword(p) == p # ""

_askPasswordForExistingFilesystem(p) ==
    IF _checkPassword(p) THEN password' = p /\ GoOn("fuse") ELSE UNCHANGED password /\ GoOn("password")

_askPasswordForNewFilesystem(p) ==
    IF _checkPassword(p) THEN password' = p /\ GoOn("confirm") ELSE UNCHANGED password /\ GoOn("password")

_askPasswordNoninteractive(p) ==
    IF _checkPassword(p) THEN password' = p /\ GoOn("fuse") ELSE UNCHANGED password /\ Exit("EmptyPassword")

requestKey ==
    /\ pc = "password"
    /\ \E p \in Passwords :
          /\ askPassword("password", p)
          /\ \/ isNoninteractive /\ _askPasswordNoninteractive(p)
             \/ ~isNoninteractive /\ call.configExists /\ _askPasswordForExistingFilesystem(p)
             \/ ~isNoninteractive /\ ~call.configExists /\ _askPasswordForNewFilesystem(p)
    /\ UNCHANGED <<call, told, options, settings, fuse, unmounted>>

_confirmPassword ==
    /\ pc = "confirm"
    /\ \E p \in Passwords : askPassword("confirm", p) /\ GoOn(IF p = password THEN "fuse" ELSE "password")
    /\ UNCHANGED <<call, told, options, settings, password, fuse, unmounted>>

(***************************************************************************)
(* Fuse::runInForeground, runInBackground, _run and _build_argv.           *)
(***************************************************************************)
Without(words, word) == SelectSeq(words, LAMBDA w : w # word)

\* mutant: only the first one is removed
RemovesTheFirst(words, word) ==
    IF \E i \in DOMAIN words : words[i] = word
    THEN LET i == CHOOSE i \in DOMAIN words : words[i] = word /\ \A j \in 1 .. i - 1 : words[j] # word
         IN SubSeq(words, 1, i - 1) \o SubSeq(words, i + 1, Len(words))
    ELSE words

_removeAndWarnIfExists(words, word) == Without(words, word)

runInForeground(words) == IF \E i \in DOMAIN words : words[i] = <<"-f">> THEN words ELSE Append(words, <<"-f">>)

runInBackground(words) == _removeAndWarnIfExists(_removeAndWarnIfExists(words, <<"-f">>), <<"-d">>)

SupportedAtime == {"noatime", "atime"}
UnsupportedAtime == {"strictatime", "relatime", "nodiratime"}

\* the words after a "-o" lose the atime options that libfuse does not know ...
extractAllAtimeOptions(words) ==
    LET word[i \in 0 .. Len(words)] ==
            IF i = 0 THEN <<>>
            ELSE IF word[i - 1] = <<"-o">> THEN SelectSeq(words[i], LAMBDA e : e \notin UnsupportedAtime) ELSE words[i]
    IN [i \in DOMAIN words |-> word[i]]

\* ... and the ones CryFS itself looks at are collected
AtimeOptions(words) ==
    UNION {{words[i][k] : k \in DOMAIN words[i]} : i \in {j \in DOMAIN words : j > 1 /\ words[j - 1] = <<"-o">>}}
    \cap (SupportedAtime \cup UnsupportedAtime)

\* the settings of a key, as a word of its own or attached to the "-o"
SettingsOf(key) == CASE key = "subtype" -> {"subtype=mine", "subtype=cryfs"}
                     [] key = "fsname" -> {"fsname=mine", "fsname=cryfs@base"}
DashO(key) == CASE key = "subtype" -> {"-osubtype=mine"} [] key = "fsname" -> {"-ofsname=mine"}

_has_entry_with_prefix(prefixed, argv) == \E i \in DOMAIN argv : argv[i] # <<>> /\ argv[i][1] \in prefixed

_has_option(argv, key) == _has_entry_with_prefix(SettingsOf(key), argv) \/ _has_entry_with_prefix(DashO(key), argv)

_add_fuse_option_if_not_exists(argv, key, setting) ==
    IF _has_option(argv, key) THEN argv ELSE argv \o <<<<"-o">>, <<setting>>>>

_build_argv(mountdir, words) ==
    LET argv == _add_fuse_option_if_not_exists(<<<<"cryfs">>, mountdir>> \o words, "subtype", "subtype=cryfs")
    IN _add_fuse_option_if_not_exists(argv, "fsname", "fsname=cryfs@base") \o <<<<"-o">>, <<"big_writes">>>>

\* Cli::_initLogfile()
_initLogfile(o) == IF o.logFile # <<>> THEN "file" ELSE IF o.foreground THEN "stderr" ELSE "syslog"

RunFuse ==
    /\ pc = "fuse"
    /\ LET words == IF options.foreground THEN runInForeground(options.fuseOptions) ELSE runInBackground(options.fuseOptions)
       IN fuse' = [argv |-> _build_argv(options.mountDir, extractAllAtimeOptions(words)),
                   logger |-> _initLogfile(options), atime |-> AtimeOptions(words)]
    /\ Exit("Success")
    /\ UNCHANGED <<call, told, options, asked, settings, password, unmounted>>

CLNext ==
    \/ ShowVersion
    \/ ParseArguments
    \/ RunUnmount
    \/ SanityChecks
    \/ _checkUseDefaultSettings
    \/ _generateCipher
    \/ _showWarningForCipherAndReturnIfOk
    \/ _generateBlocksizeBytes
    \/ _generateMissingBlockIsIntegrityViolation
    \/ requestKey
    \/ _confirmPassword
    \/ RunFuse

CLSpec == CLInit /\ [][CLNext]_clvars

(***************************************************************************)
(* Properties                                                              *)
(***************************************************************************)
Age(v) == CHOOSE i \in DOMAIN ReleaseOrder : v \in ReleaseOrder[i]

\* The user is told to update exactly when the version on the server is newer than the
\* one that runs: pre-releases come before their release, development builds after it,
\* 0.9 before 0.10, and a missing minor or hotfix number counts as 0.
UpdateIsAnnounced ==
    told.newest # <<>> =>
        ("please update" \in told.printed <=> Age(call.version) < Age(told.newest))

Prompts(q) == {i \in DOMAIN asked : asked[i].q = q}
LastPrompt(q) == CHOOSE i \in Prompts(q) : \A j \in Prompts(q) : j <= i
UsesDefaults ==
    IF isNoninteractive THEN TRUE ELSE Prompts("default settings") # {} /\ _parseYesNo(asked[LastPrompt("default settings")].a) = <<TRUE>>

\* A new file system gets the settings of the command line, and for the others either
\* all the defaults or what the user chose last.  The question for the defaults is
\* asked at most once and only when something is open, and a cipher with a warning that
\* the user picked from the menu was confirmed after it was picked.
SettingsAreTheUsers ==
    settings.missing # None =>
        /\ Cardinality(Prompts("default settings")) <= 1
        /\ options.cipher # <<>> /\ options.blocksize # <<>> /\ options.missing # <<>> => asked = SelectSeq(asked, LAMBDA x : x.q \notin {"default settings", "cipher", "blocksize", "missing block"})
        /\ settings.cipher = IF options.cipher # <<>> THEN options.cipher[1][1]
                             ELSE IF UsesDefaults THEN DefaultCipher ELSE Ciphers[Numbers[asked[LastPrompt("cipher")].a]]
        /\ options.cipher = <<>> /\ ~UsesDefaults /\ settings.cipher \in CiphersWithWarning =>
               /\ Prompts("cipher warning") # {} /\ LastPrompt("cipher warning") = LastPrompt("cipher") + 1
               /\ _parseYesNo(asked[LastPrompt("cipher warning")].a) = <<TRUE>>
        /\ settings.blocksize = IF options.blocksize # <<>> THEN Numbers[options.blocksize[1][1]]
                                ELSE IF UsesDefaults THEN DefaultBlocksize ELSE Blocksizes[Numbers[asked[LastPrompt("blocksize")].a]]
        /\ settings.missing = IF options.missing # <<>> THEN options.missing[1] = <<"true">>
                              ELSE IF UsesDefaults THEN FALSE ELSE _parseYesNo(asked[LastPrompt("missing block")].a) = <<TRUE>>

\* The key comes from a password that is not empty and that the user typed last: twice in
\* a row for a new file system.  In noninteractive mode the password is the only prompt.
PasswordIsTheUsers ==
    pc = "fuse" \/ fuse # NoFuse =>
        LET n == Len(asked)
        IN /\ password # ""
           /\ IF isNoninteractive THEN asked = <<[q |-> "password", a |-> password]>>
              ELSE IF call.configExists THEN asked[n] = [q |-> "password", a |-> password]
              ELSE asked[n - 1] = [q |-> "password", a |-> password] /\ asked[n] = [q |-> "confirm", a |-> password]

\* what libfuse makes of its arguments: the mount options in order, and whether it stays in the foreground
Attached == [w \in {"-ofsname=mine", "-osubtype=mine"} |-> IF w = "-ofsname=mine" THEN "fsname=mine" ELSE "subtype=mine"]
libfuseOptions(words) ==
    FlattenSeq([i \in DOMAIN words |->
        IF i > 1 /\ words[i - 1] = <<"-o">> THEN words[i]
        ELSE IF Len(words[i]) = 1 /\ words[i][1] \in DOMAIN Attached THEN <<Attached[words[i][1]]>> ELSE <<>>])
libfuseForeground(words) == \E i \in DOMAIN words : words[i] \in {<<"-f">>, <<"-d">>}

Defaults(key) == IF key = "subtype" THEN "subtype=cryfs" ELSE "fsname=cryfs@base"
Keyed(seq, key) == SelectSeq(seq, LAMBDA e : e \in SettingsOf(key))
Unkeyed(seq) == SelectSeq(seq, LAMBDA e : e \notin SettingsOf("subtype") \cup SettingsOf("fsname") \cup UnsupportedAtime)

\* the user sets the key at the start of a word
Recognised(key) == \E i \in DOMAIN options.fuseOptions :
    LET word == SelectSeq(options.fuseOptions[i], LAMBDA e : e \notin UnsupportedAtime)
    IN word # <<>> /\ word[1] \in SettingsOf(key) \cup DashO(key)

\* libfuse gets the absolute mount directory, which does not contain the base directory, runs in the foreground exactly when CryFS was
\* asked to, and gets every mount option of the user in order, from behind the double dash
\* and from -o, except the atime options it does not know.  CryFS adds big_writes, and the
\* file system's type and name exactly when the user does not set them (a user whose
\* only setting stands behind a comma gets the default after it).
FuseGetsTheUsersOptions ==
    fuse # NoFuse =>
        LET user == libfuseOptions(options.fuseOptions)
            got == libfuseOptions(fuse.argv)
        IN /\ fuse.argv[2][1] = "/" /\ ~IsPrefix(fuse.argv[2], options.baseDir)
           /\ libfuseForeground(fuse.argv) <=> options.foreground
           /\ Unkeyed(got) = Append(Unkeyed(user), "big_writes")
           /\ \A key \in {"subtype", "fsname"} :
                 Keyed(got, key) = Keyed(user, key) \o IF Recognised(key) THEN <<>> ELSE <<Defaults(key)>>

\* The program does what the user said: the update notice, the settings of a new file system, the
\* password and the options of libfuse are the ones the four properties above describe.
UserIsObeyed == UpdateIsAnnounced /\ SettingsAreTheUsers /\ PasswordIsTheUsers /\ FuseGetsTheUsersOptions
=============================================================================
