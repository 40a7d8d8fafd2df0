------------------------------ MODULE ConfigFile -------------------------------
(***************************************************************************)
(* The configuration file, through which the application hands its         *)
(* authentication token to the hooks: load_or_init_config_app              *)
(* (winvibe-app/config_loader.rs) and the start of the server (lib.rs)     *)
(* write it, load_config_strict (winvibe-hookcli/config_loader.rs) reads   *)
(* it.                                                                     *)
(*                                                                         *)
(* Two names, the file and its temporary neighbour, refer to objects of    *)
(* the file system; fs::write opens or creates the object a name refers    *)
(* to, empties it, and then writes through its handle, and a rename moves  *)
(* an object from one name to the other.  Of the text only its form, its   *)
(* token and its other settings are kept.  A process can die between any   *)
(* two steps and be started again; what it wrote stays.  The user saves    *)
(* any text under the name at any time, in one step, or removes the file.  *)
(***************************************************************************)
EXTENDS Naturals, FiniteSets

CONSTANTS
  Apps,      \* the application processes that may run at the same time
  Hooks,     \* runs of winvibe-hookcli
  Objects,   \* file objects
  Tokens,    \* the tokens, each drawn once: a bound on starts that need one
  Addresses, \* the bind and port pairs that are valid
  Standard,  \* the pair of the default text, 127.0.0.1 and 59999
  HandForms, \* the forms of the texts that the user saves: a bound of the instances
  Nothing    \* no object, no token

(* The settings that the validation refuses, whichever they are. *)
Rejected == "rejected"

(* What a text can look like to persist_auth_token and to the parser:
   "full" has lines for settings and one that begins with auth_token, "bare" is the
   latter alone, and "without" has the former alone; "comment" mentions auth_token
   where a line in its place is not read, as in a comment; "unended" and "closed"
   have no mention of it and take no further line, the one because its last setting
   does not end in a newline, the other because it ends in a table, or in a comment
   without a newline; "garbled" is not TOML. *)
TextForms ==
  {"empty", "full", "bare", "without", "comment", "unended", "closed", "garbled"}

ASSUME ConfigAssumption ==
  /\ Standard \in Addresses
  /\ Rejected \notin Addresses
  /\ Nothing \notin Objects \cup Tokens
  /\ Apps \cap Hooks = {}
  /\ HandForms \subseteq TextForms
  /\ Cardinality(Objects) >= Cardinality(Apps) + 2

VARIABLES
  path,     \* the object named winvibe.toml
  tmp,      \* the object named winvibe.toml.tmp
  content,  \* object -> its text
  drawn,    \* the tokens drawn or typed so far
  app,      \* process -> where it is in its start
  hook,     \* hook -> whether it has read the file, and what it made of it
  overtaken,\* history: the processes and hooks that read a token before the user
            \* changed it or removed the file
  contended \* history: a process was in its start when another began one, or when
            \* the user changed the token

vars == <<path, tmp, content, drawn, app, hook, overtaken, contended>>

(* Nothing is the token of a text that has none which is read, or an empty one. *)
Text(form, token, settings) == [form |-> form, token |-> token, settings |-> settings]
Empty   == Text("empty", Nothing, Standard)
Default == Text("full", Nothing, Standard)
Garbled == Text("garbled", Nothing, Standard)

(* toml::from_str: every field but the token has a default, and unknown ones are
   ignored. *)
Decodes(text) == text.form # "garbled"

HasToken(text) == text.token # Nothing

(* RawWinvibeConfig::validate: a loopback literal, a port, a token of 32 digits, a
   ttl of 5 s or more and a known timeout_action.  The tokens here are well-formed;
   a text that fails any of the other rules has Rejected settings. *)
Validates(text) == HasToken(text) /\ text.settings \in Addresses

Off  == [pc |-> "off", handle |-> Nothing, config |-> Empty, text |-> Empty]
Idle == [pc |-> "new", config |-> Empty]

Init ==
  /\ path = Nothing
  /\ tmp = Nothing
  /\ content = [o \in Objects |-> Empty]
  /\ drawn = {}
  /\ app = [p \in Apps |-> Off]
  /\ hook = [h \in Hooks |-> Idle]
  /\ overtaken = {}
  /\ contended = FALSE

At(p, pc) == app[p].pc = pc
Goto(p, pc) == app' = [app EXCEPT ![p].pc = pc]
Die(p) == app' = [app EXCEPT ![p] = [Off EXCEPT !.pc = "refused"]]

(* An object that no name and no process refers to. *)
Unused(o) == o \notin {path, tmp} \cup {app[p].handle : p \in Apps}

(* The file system takes back the object that a rename has left without a name. *)
Released(o) ==
  IF o \in Objects /\ \A p \in Apps : app[p].handle # o
    THEN [content EXCEPT ![o] = Empty] ELSE content

(* The two halves of fs::write. *)
Open(p, object, pc) ==
  /\ content' = [content EXCEPT ![object] = Empty]
  /\ app' = [app EXCEPT ![p].pc = pc, ![p].handle = object]

SameLength(old, new) ==
  /\ old.form = new.form
  /\ old.settings = new.settings
  /\ HasToken(old) = HasToken(new)

Overwrite(old, new) ==
  IF old = Empty \/ SameLength(old, new) THEN new ELSE Garbled

Write(p, text, pc) ==
  /\ content' = [content EXCEPT ![app[p].handle] = Overwrite(@, text)]
  /\ app' = [app EXCEPT ![p].pc = pc, ![p].handle = Nothing, ![p].text = Empty]

--------------------------------------------------------------------------------
(* ensure_default_config_file *)

Starting(p) ==
  app[p].pc \in {"create", "write_default", "load", "reread", "open_tmp", "write_tmp",
                 "rename"}

Start(p) ==
  /\ At(p, "off")
  /\ Goto(p, IF path = Nothing THEN "create" ELSE "load")
  /\ contended' = (contended \/ \E q \in Apps : Starting(q))
  /\ UNCHANGED <<path, tmp, content, drawn, hook, overtaken>>

(* The file may have appeared since, and is emptied then. *)
OpenDefault(p) ==
  /\ At(p, "create")
  /\ \E o \in Objects :
       /\ IF path = Nothing THEN Unused(o) ELSE o = path
       /\ path' = o
       /\ Open(p, o, "write_default")
  /\ UNCHANGED <<tmp, drawn, hook, overtaken, contended>>

WriteDefault(p) ==
  /\ At(p, "write_default")
  /\ Write(p, Default, "load")
  /\ UNCHANGED <<path, tmp, drawn, hook, overtaken, contended>>

--------------------------------------------------------------------------------
(* load_or_init_config_app *)

(* The end of it: what is validated is the text that was read first. *)
Validate(p, config) ==
  IF Validates(config) THEN app' = [app EXCEPT ![p].pc = "bind", ![p].config = config]
                       ELSE Die(p)

(* The file can be read and decoded. *)
FileDecodes == path # Nothing /\ Decodes(content[path])

(* A file that is gone or cannot be decoded ends the process; a missing or empty
   token is drawn. *)
Load(p) ==
  /\ At(p, "load")
  /\ \/ /\ ~ FileDecodes
        /\ Die(p)
        /\ UNCHANGED drawn
     \/ /\ FileDecodes /\ HasToken(content[path])
        /\ Validate(p, content[path])
        /\ UNCHANGED drawn
     \/ /\ FileDecodes /\ ~ HasToken(content[path])
        /\ \E t \in Tokens \ drawn :
             /\ drawn' = drawn \cup {t}
             /\ app' = [app EXCEPT ![p].pc = "reread",
                                   ![p].config = [content[path] EXCEPT !.token = t]]
  /\ UNCHANGED <<path, tmp, content, hook, overtaken, contended>>

\* mutant of WithToken: the token line is added where there is one
WithTokenAdded(text, token) ==
  IF text.form = "empty" THEN Text("bare", token, Standard) ELSE Garbled

(* What a line in the place of those that begin with auth_token makes of a text,
   or, when it does not mention auth_token, one more line at its end. *)
FormWithToken ==
  [form \in TextForms |->
     CASE form = "empty"               -> "bare"
       [] form = "without"             -> "full"
       [] form = "closed"              -> "comment"
       [] form = "unended"             -> "garbled"
       [] form \in {"full", "bare", "comment", "garbled"} -> form]

(* Those that hold the token then. *)
Writable(text) == text.form \in {"full", "bare", "empty", "without"}

WithToken(text, token) ==
  Text(FormWithToken[text.form], IF Writable(text) THEN token ELSE Nothing, text.settings)

(* persist_auth_token reads the text again. *)
Reread(p) ==
  /\ At(p, "reread")
  /\ IF path = Nothing
       THEN Die(p)
       ELSE app' = [app EXCEPT ![p].pc = "open_tmp",
                               ![p].text = WithToken(content[path], app[p].config.token)]
  /\ UNCHANGED <<path, tmp, content, drawn, hook, overtaken, contended>>

(* A temporary file that a dead process left behind is used again. *)
OpenTmp(p) ==
  /\ At(p, "open_tmp")
  /\ \E o \in Objects :
       /\ IF tmp = Nothing THEN Unused(o) ELSE o = tmp
       /\ tmp' = o
       /\ Open(p, o, "write_tmp")
  /\ UNCHANGED <<path, drawn, hook, overtaken, contended>>

WriteTmp(p) ==
  /\ At(p, "write_tmp")
  /\ Write(p, app[p].text, "rename")
  /\ UNCHANGED <<path, tmp, drawn, hook, overtaken, contended>>

\* mutant of Rename: the server starts before the token is in the file
RenameForgotten(p) ==
  /\ At(p, "rename")
  /\ Validate(p, app[p].config)
  /\ UNCHANGED <<path, tmp, content, drawn, hook, overtaken, contended>>

(* Another process may have taken the temporary file away. *)
Rename(p) ==
  /\ At(p, "rename")
  /\ IF tmp = Nothing
       THEN Die(p) /\ UNCHANGED <<path, tmp, content>>
       ELSE /\ path' = tmp /\ tmp' = Nothing
            /\ content' = Released(path)
            /\ Validate(p, app[p].config)
  /\ UNCHANGED <<drawn, hook, overtaken, contended>>

(* ServerHandle::start: one process can have the address. *)
Bind(p) ==
  /\ At(p, "bind")
  /\ IF \E q \in Apps : At(q, "serving") /\ app[q].config.settings = app[p].config.settings
       THEN Die(p) ELSE Goto(p, "serving")
  /\ UNCHANGED <<path, tmp, content, drawn, hook, overtaken, contended>>

Crash(p) ==
  /\ ~ At(p, "off")
  /\ app' = [app EXCEPT ![p] = Off]
  /\ overtaken' = overtaken \ {p}
  /\ UNCHANGED <<path, tmp, content, drawn, hook, contended>>

--------------------------------------------------------------------------------
(* The user *)

(* Texts that a user can have written: a form says whether there is a token, and
   whether there are settings. *)
HandTexts ==
  {text \in [form : HandForms, token : Tokens \cup {Nothing},
             settings : Addresses \cup {Rejected}] :
     /\ text.token # Nothing => text.form \in {"full", "bare"}
     /\ text.settings # Standard => text.form \notin {"empty", "bare", "garbled"}}

(* Who has read the token has an old one from now on, and who is writing it may
   write it over what is there now. *)
Overtake ==
  /\ overtaken' = overtaken \cup {p \in Apps : app[p].pc \in {"bind", "serving"}}
                             \cup {h \in Hooks : hook[h].pc = "loaded"}
  /\ contended' = (contended \/ \E p \in Apps : Starting(p) /\ ~ At(p, "load"))

(* Other settings, and the token as it is. *)
SettingsOnly(text) ==
  /\ path # Nothing
  /\ text.form = content[path].form
  /\ text.token = content[path].token

(* Any text is saved: an edited one, an old one from a buffer, one from a backup. *)
Edit(text) ==
  /\ \E o \in Objects :
       /\ IF path = Nothing THEN Unused(o) ELSE o = path
       /\ path' = o
       /\ content' = [content EXCEPT ![o] = text]
  /\ drawn' = drawn \cup ({text.token} \ {Nothing})
  /\ IF SettingsOnly(text) THEN UNCHANGED <<overtaken, contended>> ELSE Overtake
  /\ UNCHANGED <<tmp, app, hook>>

Remove ==
  /\ path # Nothing
  /\ path' = Nothing
  /\ content' = Released(path)
  /\ Overtake
  /\ UNCHANGED <<tmp, drawn, app, hook>>

--------------------------------------------------------------------------------
\* mutant of HookLoads: an empty token is let through
HookLoadsEmptyToken(h) ==
  /\ hook[h].pc = "new"
  /\ hook' = [hook EXCEPT ![h] =
       IF FileDecodes
         THEN [pc |-> "loaded", config |-> content[path]]
         ELSE [Idle EXCEPT !.pc = "ConfigError"]]
  /\ UNCHANGED <<path, tmp, content, drawn, app, overtaken, contended>>

(* load_config_strict: no file, a text that does not decode or a configuration
   that is not valid ends the hook; no token is drawn here. *)
HookLoads(h) ==
  /\ hook[h].pc = "new"
  /\ hook' = [hook EXCEPT ![h] =
       IF FileDecodes /\ Validates(content[path])
         THEN [pc |-> "loaded", config |-> content[path]]
         ELSE [Idle EXCEPT !.pc = "ConfigError"]]
  /\ UNCHANGED <<path, tmp, content, drawn, app, overtaken, contended>>

AppStep(p) ==
  \/ Start(p) \/ OpenDefault(p) \/ WriteDefault(p) \/ Load(p) \/ Reread(p)
  \/ OpenTmp(p) \/ WriteTmp(p) \/ Rename(p) \/ Bind(p) \/ Crash(p)

Next ==
  \/ \E p \in Apps : AppStep(p)
  \/ \E h \in Hooks : HookLoads(h)
  \/ \E text \in HandTexts : Edit(text)
  \/ Remove

Spec == Init /\ [][Next]_vars

--------------------------------------------------------------------------------
Texts == [form : TextForms, token : Tokens \cup {Nothing}, settings : Addresses \cup {Rejected}]

Processes ==
  [pc : {"off", "create", "write_default", "load", "reread", "open_tmp", "write_tmp",
         "rename", "bind", "serving", "refused"},
   handle : Objects \cup {Nothing}, config : Texts, text : Texts]

(* The type invariant, and that no hook goes on without a token. *)
TypeOK ==
  /\ path \in Objects \cup {Nothing}
  /\ tmp \in Objects \cup {Nothing}
  /\ content \in [Objects -> Texts]
  /\ drawn \subseteq Tokens
  /\ app \in [Apps -> Processes]
  /\ overtaken \subseteq Apps \cup Hooks
  /\ contended \in BOOLEAN
  /\ hook \in [Hooks -> [pc : {"new", "loaded", "ConfigError"}, config : Texts]]
  /\ \A h \in Hooks : hook[h].pc = "loaded" => HasToken(hook[h].config)

(* The servers whose token the user has not replaced under them. *)
Standing == {p \in Apps : At(p, "serving") /\ p \notin overtaken}

(* While a server runs whose text was of a form that takes a token, the file holds
   that token: a hook that starts now is authorised.  Two starts at once can spoil
   it, and so can the user who changes the token; a crash cannot, nor a second
   process that starts when the server runs, nor settings saved in the middle of
   the rewrite. *)
ServingTokenIsOnDisk ==
  ~ contended =>
    \A p \in Standing : Writable(app[p].config) =>
      path # Nothing /\ content[path].token = app[p].config.token

(* No step of a process, its death included, makes a file that can be read one that
   cannot, and none takes it away: a start that finds a readable file leaves one to
   the next, wherever it ends.  The rewrite of a text whose last line is unended is
   the exception. *)
StartsSpoilNothing ==
  [][(app' # app /\ ~ contended' /\ FileDecodes) =>
       \/ FileDecodes'
       \/ content[path].form = "unended"]_vars
================================================================================
