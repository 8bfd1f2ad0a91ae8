---------------------------- MODULE ConfigManager ----------------------------
(***************************************************************************)
(* ConfigManager of internal/config/config.go: the configuration in use,   *)
(* the file, and loading, updating and saving. Loading reads durations as  *)
(* strings; saving marshals time.Duration, which json writes as a number.  *)
(* A configuration is put in use before it is validated.                   *)
(***************************************************************************)
EXTENDS Naturals

CONSTANT Sections  \* the sections of smpp.Config

VARIABLES
    config,    \* ConfigManager.config, or NoConfig
    document,  \* the file: its form and its sections
    outcome    \* of the last operation: "ok", "invalid" (Validate failed), "unreadable", "unwritten"

configVars == <<config, document, outcome>>

\* A section is what getDefaultConfig gives, something else, or something Validate refuses.
SectionValues == {"default", "other", "invalid"}
Configs == [Sections -> SectionValues]
NoConfig == [s \in Sections |-> "none"]
DefaultConfig == [s \in Sections |-> "default"]

\* Validate and the five functions it calls.
ValidConfig(c) == \A s \in Sections : c[s] # "invalid"

\* The forms in which somebody may write configJSON: every duration a string as in the example
\* files, or one missing or malformed. A file may also be "absent"; "numbers", as json.Marshal
\* writes a time.Duration; or "torn".
EditedForms == {"strings", "gaps"}

ConfigInit ==
    /\ config = NoConfig
    /\ document = [form |-> "absent", sections |-> DefaultConfig]
    /\ outcome = "ok"

-----------------------------------------------------------------------------
\* LoadConfig up to convertClientConfig: a number does not unmarshal into a string, and the
\* empty string is no duration; without a file the default configuration is used.
Parses(d) == d.form \in {"absent", "strings"}

\* The configuration is put in use, then validated.
Install(c) ==
    /\ config' = c
    /\ outcome' = IF ValidConfig(c) THEN "ok" ELSE "invalid"
    /\ UNCHANGED document

\* LoadConfig and Reload.
LoadConfig == Parses(document) /\ Install(document.sections)

\* A file that does not parse changes nothing.
LoadFails ==
    /\ ~Parses(document)
    /\ outcome' = "unreadable"
    /\ UNCHANGED <<config, document>>

\* UpdateConfig of one section, of the default configuration if there is none.
UpdateSection(s, v) ==
    Install([(IF config = NoConfig THEN DefaultConfig ELSE config) EXCEPT ![s] = v])

\* UpdateConfig of all.
UpdateAll(c) == Install(c)

\* The file is replaced.
Write(form, sections) ==
    /\ document' = [form |-> form, sections |-> sections]
    /\ outcome' = "ok"
    /\ UNCHANGED config

\* SaveConfig writes what is in use, valid or not.
SaveConfig == config # NoConfig /\ Write("numbers", config)

\* os.WriteFile truncates the file, and fails.
SaveTears ==
    /\ config # NoConfig
    /\ document' = [document EXCEPT !.form = "torn"]
    /\ outcome' = "unwritten"
    /\ UNCHANGED config

CreateDefaultConfigFile == Write("numbers", DefaultConfig)

\* Somebody edits the file.
EditFile(form, c) == Write(form, c)

ConfigNext ==
    \/ LoadConfig \/ LoadFails
    \/ \E s \in Sections, v \in SectionValues : UpdateSection(s, v)
    \/ \E c \in Configs : UpdateAll(c) \/ \E form \in EditedForms : EditFile(form, c)
    \/ SaveConfig \/ SaveTears \/ CreateDefaultConfigFile

ConfigSpec == ConfigInit /\ [][ConfigNext]_configVars

-----------------------------------------------------------------------------
(* Properties *)

\* What SaveConfig or CreateDefaultConfigFile wrote, LoadConfig reads.
SavedLoads == ~(document.form = "numbers" /\ outcome = "unreadable")

=============================================================================
