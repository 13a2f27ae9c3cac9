----------------------------- MODULE Configuration -----------------------------
(***************************************************************************)
(* get_configuration.c: the settings of the server are gathered from the   *)
(* command line, config.cfg, the environment and the defaults, one pass    *)
(* after the other.  A field that is still NULL or 0 (Unset) takes what    *)
(* the pass has for it.  Meanwhile the configuration editor may save       *)
(* config.cfg: config_write_file() truncates it and then writes it.        *)
(* Its names differ from those of ServerStart, with which it is proved.    *)
(***************************************************************************)
EXTENDS Integers, Sequences, FiniteSets

CONSTANTS
  Settings,     \* fields of struct configuration looked at
  IntSettings,  \* those of type int
  ArgTexts,     \* arguments of options
  EnvTexts,     \* values of environment variables
  Atoi,         \* (int) strtol(text): 0 (Unset) also for text that is no
                \* number, or a multiple of 2^32
  Default,      \* config_defaults.h
  Files,        \* settings a config.cfg that parses may hold; Unset where a
                \* key is missing, of another type, or 0
  FirstFiles,   \* what config.cfg may be when the server starts
  MaxOptions,   \* bound on the options of a command line
  Unset, Absent, Broken

Texts  == ArgTexts \cup EnvTexts
Empty  == [s \in Settings |-> Unset]
Values == (UNION {{f[s] : s \in Settings} : f \in Files \cup {Default}})
          \cup Texts \cup {Atoi[x] : x \in Texts} \cup {Unset}

\* The fields, and the variables readConfigurationFromEnvironment asks for.
EnvironmentVariable ==
  [serverRoot |-> "DC_SERVER_ROOT", logFile |-> "DC_LOG_FILE",
   file404 |-> "DC_404_FILE", serverName |-> "DC_SERVER_NAME",
   defaultDocument |-> "DC_DEFAULT_DOCUMENT",
   maxConnections |-> "DC_MAX_CONNECTIONS", port |-> "DC_SERVER_PORT",
   serverMode |-> "DC_SERVER_MODE"]
\* The variables the usage text and readme.txt name.
DocumentedVariable == [EnvironmentVariable EXCEPT !["port"] = "DC_PORT"]
Variables == {EnvironmentVariable[s] : s \in Settings}
             \cup {DocumentedVariable[s] : s \in Settings}

ASSUME ConfigurationAssumption ==
  /\ Settings \subseteq DOMAIN EnvironmentVariable
  /\ IntSettings = Settings \cap {"maxConnections", "port", "serverMode"}
  /\ Unset \notin Texts
  /\ Absent \notin Files \cup {Empty} /\ Broken \notin Files \cup {Empty}
  /\ Absent # Broken
  /\ DOMAIN Default = Settings /\ \A s \in Settings : Default[s] # Unset
  /\ \A f \in Files : f = [s \in Settings |-> f[s]]
  /\ FirstFiles \subseteq Files \cup {Absent, Broken}
  /\ MaxOptions \in Nat

\* An option as getopt_long sees it; an unknown one, an ambiguous one and one
\* without its argument are alike.
Options == [form : {"short", "long"}, name : Settings, text : ArgTexts]
           \cup [form : {"long"}, name : {"help", "unknown"}, text : {Unset}]

VARIABLES
  pass,      \* the pass readConfiguration is in
  argv, optind,
  fields,    \* the fields of struct configuration
  env,
  file,      \* config.cfg
  saving,    \* what the editor has still to write after it truncated the file
  versions,  \* history: what config.cfg has held before a save or after one;
             \* Empty stands for a missing one
  torn       \* history: it was read in the middle of a save

surroundings == <<argv, env, file, saving, versions, torn>>
readVars == <<pass, optind, fields, surroundings>>

Ended == {"done", "failed", "helped"}

ReadTypeOK ==
  /\ pass \in {"args", "access", "file", "env", "defaults"} \cup Ended
  /\ argv \in Seq(Options)
  /\ optind \in 1..(Len(argv) + 1)
  /\ fields \in [Settings -> Values]
  /\ env \in [Variables -> EnvTexts \cup {Unset}]
  /\ file \in Files \cup {Empty, Absent, Broken}
  /\ saving \in Files \cup {Absent}
  /\ versions \subseteq Files \cup {Empty}
  /\ torn \in BOOLEAN

ReadInit ==
  /\ pass = "args" /\ optind = 1
  /\ argv \in UNION {[1..n -> Options] : n \in 0..MaxOptions}
  /\ fields = [s \in Settings |-> Unset]
  /\ env \in [Variables -> EnvTexts \cup {Unset}]
  /\ file \in FirstFiles
  /\ saving = Absent
  /\ versions = IF file = Absent THEN {Empty} ELSE {file} \ {Broken}
  /\ torn = FALSE

Step(from, to) == pass = from /\ pass' = to
-----------------------------------------------------------------------------
\* assignConfigStringValue, assignConfigIntValue: a field that is set stays.
Assign(old, new) == IF old = Unset THEN new ELSE old

\* What text stands for in a field.
Value(s, text) == IF s \in IntSettings /\ text # Unset THEN Atoi[text] ELSE text

\* The option string has no `d'.
Recognised(o) == o.name \in Settings /\ ~(o.form = "short" /\ o.name = "defaultDocument")

\* Mutant: integers too are kept once they are set.
MutTakeOption ==
  /\ pass = "args" /\ optind <= Len(argv)
  /\ LET o == argv[optind] IN
       /\ Recognised(o)
       /\ fields' = [fields EXCEPT ![o.name] = Assign(@, Value(o.name, o.text))]
  /\ optind' = optind + 1
  /\ UNCHANGED <<pass, surroundings>>

\* The first string wins, and the last integer.
TakeOption ==
  /\ pass = "args" /\ optind <= Len(argv)
  /\ LET o == argv[optind] IN
       /\ Recognised(o)
       /\ fields' = [fields EXCEPT ![o.name] =
                       IF o.name \in IntSettings THEN Value(o.name, o.text)
                                                 ELSE Assign(@, o.text)]
  /\ optind' = optind + 1
  /\ UNCHANGED <<pass, surroundings>>

Help ==
  /\ Step("args", "helped") /\ optind <= Len(argv)
  /\ argv[optind].name = "help"
  /\ UNCHANGED <<optind, fields, surroundings>>

BadOption ==
  /\ Step("args", "failed") /\ optind <= Len(argv)
  /\ ~Recognised(argv[optind]) /\ argv[optind].name # "help"
  /\ UNCHANGED <<optind, fields, surroundings>>

EndOptions ==
  /\ Step("args", "access") /\ optind = Len(argv) + 1
  /\ UNCHANGED <<optind, fields, surroundings>>

\* access(DEFAULT_CONFIGURATION_FILE, F_OK)
Access ==
  /\ Step("access", IF file = Absent THEN "env" ELSE "file")
  /\ UNCHANGED <<optind, fields, surroundings>>

\* The pass over the settings of a source.
TakeAll(source) == fields' = [s \in Settings |-> Assign(fields[s], source[s])]

TakeFile ==
  /\ Step("file", "env") /\ file # Broken
  /\ TakeAll(file)
  /\ torn' = (saving # Absent)
  /\ UNCHANGED <<optind, argv, env, file, saving, versions>>

FileFails ==
  /\ Step("file", "failed") /\ file = Broken
  /\ UNCHANGED <<optind, fields, surroundings>>

TakeEnvironment ==
  /\ Step("env", "defaults")
  /\ TakeAll([s \in Settings |-> Value(s, env[EnvironmentVariable[s]])])
  /\ UNCHANGED <<optind, surroundings>>

TakeDefaults ==
  /\ Step("defaults", "done")
  /\ TakeAll(Default)
  /\ UNCHANGED <<optind, surroundings>>

\* The editor's config_write_file(): fopen() for writing truncates, fclose()
\* writes what was printed.
Truncate ==
  /\ saving = Absent
  /\ saving' \in Files
  /\ file' = Empty
  /\ UNCHANGED <<pass, optind, fields, argv, env, versions, torn>>

Rewrite ==
  /\ saving # Absent
  /\ file' = saving /\ saving' = Absent
  /\ versions' = versions \cup {saving}
  /\ UNCHANGED <<pass, optind, fields, argv, env, torn>>
-----------------------------------------------------------------------------
ReadConfiguration ==
  \/ TakeOption \/ Help \/ BadOption \/ EndOptions \/ Access \/ TakeFile
  \/ FileFails \/ TakeEnvironment \/ TakeDefaults

\* The editor matters until the server has its settings.
Edit == pass \notin Ended /\ (Truncate \/ Rewrite)

ReadNext == ReadConfiguration \/ Edit

ReadSpec == ReadInit /\ [][ReadNext]_readVars
-----------------------------------------------------------------------------
First(ks) == CHOOSE k \in ks : \A j \in ks : k <= j
Last(ks)  == CHOOSE k \in ks : \A j \in ks : j <= k

\* What the first n options of the command line say of a setting.
ArgValue(s, n) ==
  LET uses == {k \in 1..n : argv[k].name = s} IN
    IF uses = {} THEN Unset
    ELSE IF s \in IntSettings THEN Value(s, argv[Last(uses)].text)
    ELSE argv[First(uses)].text

\* The first of the sources that says something of a setting.
FirstSource(sources) ==
  sources[CHOOSE k \in DOMAIN sources :
            sources[k] # Unset /\ \A j \in 1..(k - 1) : sources[j] = Unset]

\* What the passes make of a file f.
AsRead(s, f) == FirstSource(<<ArgValue(s, Len(argv)), f[s],
                              Value(s, env[EnvironmentVariable[s]]), Default[s]>>)

\* What the usage text promises for it: command line, configuration file,
\* environment variables, defaults (get_configuration.c:31-44, readme.txt:16-27).
Named == {s \in Settings : \E k \in 1..Len(argv) : argv[k].name = s}

Documented(s, f) ==
  IF s \in Named THEN ArgValue(s, Len(argv))
  ELSE IF f[s] # Unset THEN f[s]
  ELSE IF env[DocumentedVariable[s]] # Unset THEN Value(s, env[DocumentedVariable[s]])
  ELSE Default[s]

\* Where the two part: an integer is given as 0, which the next pass takes for
\* not given, or the variable that is read is not the documented one.
GivesZero(s) ==
  /\ s \in IntSettings
  /\ \/ s \in Named /\ ArgValue(s, Len(argv)) = Unset
     \/ /\ env[DocumentedVariable[s]] # Unset
        /\ Value(s, env[DocumentedVariable[s]]) = Unset
OtherName(s) == env[EnvironmentVariable[s]] # env[DocumentedVariable[s]]

\* The contents of config.cfg the settings may come from.
Sources == IF torn THEN {Empty} ELSE versions

\* A server that starts has the documented settings, all those of config.cfg
\* from one version of it, but for three exceptions: a 0, a variable with
\* another name, and a file that was being saved, which counts as empty
\* (readConfiguration, get_configuration.c:309-324).
Precedence ==
  pass = "done" =>
    \E f \in Sources : \A s \in Settings :
      fields[s] = IF GivesZero(s) \/ OtherName(s) THEN AsRead(s, f) ELSE Documented(s, f)

\* readme.txt:16-17: the command line comes first, then config.cfg, then the
\* environment, where a variable has the name readme.txt:19-27 gives it.
CommandLineFirst == \A s \in Named : fields[s] = ArgValue(s, Len(argv))
FileSecond ==
  \A s \in Settings \ Named :
    (\A f \in versions : f[s] # Unset) => \E f \in versions : fields[s] = f[s]
EnvironmentThird ==
  \A s \in Settings \ Named :
    (\A f \in versions : f[s] = Unset) /\ env[DocumentedVariable[s]] # Unset
      => fields[s] = Value(s, env[DocumentedVariable[s]])

\* A server that starts keeps at least one of the three rules; a server that
\* breaks this breaks each of them.
DocumentedRules ==
  pass = "done" => CommandLineFirst \/ FileSecond \/ EnvironmentThird
-----------------------------------------------------------------------------
FileOK ==
  /\ saving = Absent => file \in versions \cup {Absent, Broken}
  /\ saving # Absent => file = Empty
  /\ file = Absent => Empty \in versions
  /\ pass = "file" => file # Absent
  /\ torn => pass \in {"env", "defaults"} \cup Ended

\* The fields are what the sources read so far say.
FieldsOK ==
  LET env1(s) == Value(s, env[EnvironmentVariable[s]])
      args(s) == ArgValue(s, Len(argv))
  IN /\ pass = "args" => \A s \in Settings : fields[s] = ArgValue(s, optind - 1)
     /\ pass \in {"access", "file"} => \A s \in Settings : fields[s] = args(s)
     /\ pass = "env" => \E f \in Sources : \A s \in Settings :
          fields[s] = Assign(args(s), f[s])
     /\ pass = "defaults" => \E f \in Sources : \A s \in Settings :
          fields[s] = Assign(Assign(args(s), f[s]), env1(s))

ReadIInv == ReadTypeOK /\ FileOK /\ FieldsOK /\ Precedence
=============================================================================
