-------------------------- MODULE ServerAccessProofs ---------------------------
(***************************************************************************)
(* The properties of ConfigFile and of ServerAccess, proved for any number *)
(* of processes, hooks, file objects, addresses and trace ids.  The first  *)
(* part says what a start that is not disturbed by another one knows at    *)
(* each of its steps.  The second joins what the layers promise of one     *)
(* request with what the first knows of the tokens.                        *)
(***************************************************************************)
EXTENDS ServerAccess, TLAPS

(* The file is there and holds this token. *)
Holds(token) == path # Nothing /\ token # Nothing /\ content[path].token = token

(* The file is there and says what the process ran out of when it drew a token: a
   text of the same form, and no token. *)
StillBlank(config) ==
  /\ path # Nothing
  /\ content[path].form = config.form
  /\ ~ HasToken(content[path])

(* Between drawing a token and the rename, nobody has one yet. *)
Drawing(p) == app[p].pc \in {"reread", "open_tmp", "write_tmp", "rename"}

StartsAlone == \A p, q \in Apps : Starting(p) /\ Starting(q) => p = q

NamesDiffer == path # Nothing => path # tmp

(* A token that is read stands in a text that takes one. *)
TokensHavePlaces == path # Nothing /\ HasToken(content[path]) => Writable(content[path])

(* What the rewrite makes of a text that had the form of this one, and no token. *)
Rewritten(text, config) ==
  /\ text.token = IF Writable(config) THEN config.token ELSE Nothing
  /\ Writable(text) <=> Writable(config)
  /\ config.form # "unended" => Decodes(text)

(* The file has the token of a process, or none, and takes none. *)
Announced(config) ==
  IF Writable(config)
    THEN Holds(config.token)
    ELSE path # Nothing /\ ~ HasToken(content[path]) /\ ~ Writable(content[path])

TokensAreCurrent ==
  /\ \A p \in Apps \ overtaken : app[p].pc \in {"bind", "serving"} => Announced(app[p].config)
  /\ \A h \in Hooks \ overtaken : hook[h].pc = "loaded" => Holds(hook[h].config.token)

StartKnows(p) ==
  /\ At(p, "create") => path = Nothing
  /\ At(p, "write_default") =>
       path # Nothing /\ app[p].handle = path /\ content[path] = Empty
  /\ Drawing(p) =>
       /\ StillBlank(app[p].config)
       /\ Decodes(app[p].config)
       /\ app[p].config.token # Nothing
  /\ app[p].pc \in {"open_tmp", "write_tmp"} => Rewritten(app[p].text, app[p].config)
  /\ At(p, "write_tmp") =>
       tmp # Nothing /\ app[p].handle = tmp /\ content[tmp] = Empty
  /\ At(p, "rename") =>
       tmp # Nothing /\ Rewritten(content[tmp], app[p].config)

Orderly ==
  /\ StartsAlone
  /\ NamesDiffer
  /\ TokensHavePlaces
  /\ TokensAreCurrent
  /\ \A p \in Apps : StartKnows(p)

Inv == TypeOK /\ (~ contended => Orderly)

--------------------------------------------------------------------------------
(* The texts that starts and edits make of texts are texts. *)
LEMMA TextsAreTexts ==
  /\ Empty \in Texts /\ Default \in Texts /\ Garbled \in Texts
  /\ HandTexts \subseteq Texts
  /\ \A text \in Texts, token \in Tokens \cup {Nothing} : WithToken(text, token) \in Texts
  /\ \A text \in Texts, token \in Tokens : [text EXCEPT !.token = token] \in Texts
  /\ \A old, new \in Texts : Overwrite(old, new) \in Texts
<1> USE ConfigAssumption DEF Text, Texts
<1>1. Empty \in Texts /\ Default \in Texts /\ Garbled \in Texts
  BY DEF Empty, Default, Garbled, TextForms
<1>2. HandTexts \subseteq Texts
  BY DEF HandTexts
<1>3. \A text \in Texts, token \in Tokens \cup {Nothing} : WithToken(text, token) \in Texts
  <2>1. \A form \in TextForms : FormWithToken[form] \in TextForms
    BY DEF TextForms, FormWithToken
  <2> QED BY <2>1 DEF WithToken
<1>4. \A text \in Texts, token \in Tokens : [text EXCEPT !.token = token] \in Texts
  OBVIOUS
<1>5. \A old, new \in Texts : Overwrite(old, new) \in Texts
  BY <1>1 DEF Overwrite
<1> QED BY <1>1, <1>2, <1>3, <1>4, <1>5

(* What the rewrite makes of a text that has no token. *)
LEMMA RewriteOfBlank ==
  ASSUME NEW text \in Texts, NEW config \in Texts, text.form = config.form,
         Decodes(text), config.token # Nothing
  PROVE  Rewritten(WithToken(text, config.token), config)
<1>1. text.form \in TextForms \ {"garbled"}
  BY DEF Texts, Decodes
<1>2. text.form # "unended" => FormWithToken[text.form] # "garbled"
  BY <1>1 DEF FormWithToken, TextForms
<1>3. /\ Writable(text) <=> Writable(config)
      /\ Writable(text) <=> FormWithToken[text.form] \in {"full", "bare", "empty", "without"}
  BY <1>1 DEF Writable, FormWithToken, TextForms
<1>4. Writable(WithToken(text, config.token)) <=> Writable(config)
  BY <1>3 DEF Writable, WithToken, Text
<1> QED BY <1>2, <1>3, <1>4 DEF Rewritten, WithToken, Text, Decodes

(* A process that begins has its type. *)
LEMMA ProcessesAreProcesses ==
  /\ Off \in Processes
  /\ \A q \in Processes, object \in Objects \cup {Nothing}, c, t \in Texts,
        pc \in {"off", "create", "write_default", "load", "reread", "open_tmp",
                "write_tmp", "rename", "bind", "serving", "refused"} :
       [pc |-> pc, handle |-> object, config |-> c, text |-> t] \in Processes
BY TextsAreTexts DEF Off, Processes

(* What the steps make of a process. *)
LEMMA MovedProcesses ==
  ASSUME NEW q \in Processes, NEW o \in Objects \cup {Nothing}, NEW t \in Texts
  PROVE  /\ \A pc \in {"write_default", "write_tmp"} :
              [q EXCEPT !.pc = pc, !.handle = o] \in Processes
         /\ \A pc \in {"load", "rename"} :
              [q EXCEPT !.pc = pc, !.handle = o, !.text = t] \in Processes
         /\ [q EXCEPT !.pc = "reread", !.config = t] \in Processes
         /\ [q EXCEPT !.pc = "open_tmp", !.text = t] \in Processes
<1>1. \A pc \in {"write_default", "write_tmp"} :
        [q EXCEPT !.pc = pc, !.handle = o] \in Processes
  BY DEF Processes
<1>2. \A pc \in {"load", "rename"} :
        [q EXCEPT !.pc = pc, !.handle = o, !.text = t] \in Processes
  BY DEF Processes
<1>3. [q EXCEPT !.pc = "reread", !.config = t] \in Processes
  BY DEF Processes
<1>4. [q EXCEPT !.pc = "open_tmp", !.text = t] \in Processes
  BY DEF Processes
<1> QED BY <1>1, <1>2, <1>3, <1>4

(* The invariant holds at the start. *)
LEMMA InitInv == Init => Inv
<1> SUFFICES ASSUME Init PROVE Inv
  OBVIOUS
<1>1. TypeOK
  BY TextsAreTexts, ProcessesAreProcesses DEF Init, TypeOK, Idle
<1>2. Orderly
  BY DEF Init, Orderly, StartsAlone, NamesDiffer, TokensHavePlaces, TokensAreCurrent,
         StartKnows, Idle, Off, Starting, Drawing, At
<1> QED BY <1>1, <1>2 DEF Inv

(* Each step of a process changes itself, and perhaps one object. *)
LEMMA StepType == TypeOK /\ [Next]_vars => TypeOK'
<1> SUFFICES ASSUME TypeOK, [Next]_vars PROVE TypeOK'
  OBVIOUS
<1>1. ASSUME NEW p \in Apps, NEW q \in Processes,
             app' = [app EXCEPT ![p] = q]
      PROVE  app' \in [Apps -> Processes]
  BY <1>1 DEF TypeOK
<1>2. ASSUME NEW p \in Apps, NEW pc, Goto(p, pc),
             pc \in {"off", "create", "write_default", "load", "reread", "open_tmp",
                     "write_tmp", "rename", "bind", "serving", "refused"}
      PROVE  app' \in [Apps -> Processes]
  BY <1>2 DEF TypeOK, Goto, Processes
<1>3. ASSUME NEW p \in Apps, Die(p) PROVE app' \in [Apps -> Processes]
  BY <1>3, ProcessesAreProcesses DEF TypeOK, Die, Processes
<1>4. ASSUME NEW p \in Apps, NEW o \in Objects, NEW pc \in {"write_default", "write_tmp"},
             Open(p, o, pc)
      PROVE  content' \in [Objects -> Texts] /\ app' \in [Apps -> Processes]
  <2>1. content' \in [Objects -> Texts]
    BY <1>4, TextsAreTexts DEF TypeOK, Open
  <2>2. app' \in [Apps -> Processes]
    <3>1. app' = [app EXCEPT ![p] = [@ EXCEPT !.pc = pc, !.handle = o]]
      BY <1>4 DEF Open
    <3>2. app[p] \in Processes
      BY DEF TypeOK
    <3>3. [app[p] EXCEPT !.pc = pc, !.handle = o] \in Processes
      BY <3>2, TextsAreTexts, MovedProcesses
    <3> QED BY <3>1, <3>3, <1>1
  <2> QED BY <2>1, <2>2
<1>5. ASSUME NEW p \in Apps, NEW text \in Texts, NEW pc \in {"load", "rename"},
             Write(p, text, pc)
      PROVE  content' \in [Objects -> Texts] /\ app' \in [Apps -> Processes]
  <2>1. content' \in [Objects -> Texts]
    BY <1>5, TextsAreTexts DEF TypeOK, Write
  <2>2. app' \in [Apps -> Processes]
    <3>1. app' = [app EXCEPT ![p] = [@ EXCEPT !.pc = pc, !.handle = Nothing, !.text = Empty]]
      BY <1>5 DEF Write
    <3>2. app[p] \in Processes
      BY DEF TypeOK
    <3>3. [app[p] EXCEPT !.pc = pc, !.handle = Nothing, !.text = Empty] \in Processes
      BY <3>2, TextsAreTexts, MovedProcesses
    <3> QED BY <3>1, <3>3, <1>1
  <2> QED BY <2>1, <2>2
<1>6. ASSUME NEW p \in Apps, NEW config \in Texts, Validate(p, config)
      PROVE  app' \in [Apps -> Processes]
  BY <1>3, <1>6 DEF TypeOK, Validate, Processes
<1>11. ASSUME NEW p \in Apps, Start(p) PROVE TypeOK'
  BY <1>2, <1>11 DEF TypeOK, Start
<1>12. ASSUME NEW p \in Apps, OpenDefault(p) PROVE TypeOK'
  BY <1>4, <1>12 DEF TypeOK, OpenDefault
<1>13. ASSUME NEW p \in Apps, WriteDefault(p) PROVE TypeOK'
  BY <1>5, <1>13, TextsAreTexts DEF TypeOK, WriteDefault
<1>14. ASSUME NEW p \in Apps, Load(p) PROVE TypeOK'
  <2>1. FileDecodes => content[path] \in Texts
    BY DEF FileDecodes, TypeOK
  <2>2. ASSUME FileDecodes, NEW t \in Tokens,
               app' = [app EXCEPT ![p].pc = "reread",
                                  ![p].config = [content[path] EXCEPT !.token = t]]
        PROVE  app' \in [Apps -> Processes]
    <3> DEFINE text == [content[path] EXCEPT !.token = t]
    <3>1. text \in Texts
      BY <2>1, <2>2, TextsAreTexts
    <3> HIDE DEF text
    <3>2. [app[p] EXCEPT !.pc = "reread", !.config = text] \in Processes
      BY <3>1, MovedProcesses DEF TypeOK
    <3>3. app' = [app EXCEPT ![p] = [@ EXCEPT !.pc = "reread", !.config = text]]
      BY <2>2 DEF text
    <3> QED BY <3>2, <3>3, <1>1
  <2>3. app' \in [Apps -> Processes] /\ drawn' \subseteq Tokens
    BY <1>14, <2>1, <2>2, <1>3, <1>6 DEF Load, TypeOK
  <2> QED BY <1>14, <2>3 DEF Load, TypeOK
<1>15. ASSUME NEW p \in Apps, Reread(p) PROVE TypeOK'
  <2>1. CASE path = Nothing
    BY <1>15, <1>3, <2>1 DEF Reread, TypeOK
  <2>2. CASE path # Nothing
    <3>1. content[path] \in Texts /\ app[p].config.token \in Tokens \cup {Nothing}
      BY <2>2 DEF TypeOK, Processes, Texts
    <3> DEFINE text == WithToken(content[path], app[p].config.token)
    <3>2. text \in Texts
      BY <3>1, TextsAreTexts
    <3>3. app' = [app EXCEPT ![p] = [@ EXCEPT !.pc = "open_tmp", !.text = text]]
      BY <1>15, <2>2 DEF Reread
    <3> HIDE DEF text
    <3>4. [app[p] EXCEPT !.pc = "open_tmp", !.text = text] \in Processes
      BY <3>2, MovedProcesses DEF TypeOK
    <3>5. app' \in [Apps -> Processes]
      BY <3>3, <3>4, <1>1
    <3> QED BY <1>15, <3>5 DEF Reread, TypeOK
  <2> QED BY <2>1, <2>2
<1>16. ASSUME NEW p \in Apps, OpenTmp(p) PROVE TypeOK'
  BY <1>4, <1>16 DEF TypeOK, OpenTmp
<1>17. ASSUME NEW p \in Apps, WriteTmp(p) PROVE TypeOK'
  <2>1. app[p].text \in Texts
    BY DEF TypeOK, Processes
  <2> QED BY <1>5, <1>17, <2>1 DEF TypeOK, WriteTmp
<1>18. ASSUME NEW p \in Apps, Rename(p) PROVE TypeOK'
  <2>1. app[p].config \in Texts
    BY DEF TypeOK, Processes
  <2>2. Released(path) \in [Objects -> Texts]
    BY TextsAreTexts DEF TypeOK, Released
  <2> QED BY <1>3, <1>6, <1>18, <2>1, <2>2 DEF TypeOK, Rename
<1>19. ASSUME NEW p \in Apps, Bind(p) PROVE TypeOK'
  BY <1>2, <1>3, <1>19 DEF TypeOK, Bind
<1>20. ASSUME NEW p \in Apps, Crash(p) PROVE TypeOK'
  BY <1>1, <1>20, ProcessesAreProcesses DEF TypeOK, Crash
<1>21. ASSUME NEW h \in Hooks, HookLoads(h) PROVE TypeOK'
  <2>1. FileDecodes => content[path] \in Texts
    BY DEF FileDecodes, TypeOK
  <2> QED BY <1>21, <2>1, TextsAreTexts DEF HookLoads, Validates, Idle, TypeOK
<1>22. ASSUME NEW text \in HandTexts, Edit(text) PROVE TypeOK'
  <2>1. content' \in [Objects -> Texts] /\ path' \in Objects
    BY <1>22, TextsAreTexts DEF Edit, TypeOK
  <2>2. drawn' \subseteq Tokens
    BY <1>22 DEF Edit, TypeOK, HandTexts
  <2>3. overtaken' \subseteq Apps \cup Hooks /\ contended' \in BOOLEAN
    BY <1>22 DEF Edit, Overtake, TypeOK
  <2> QED BY <1>22, <2>1, <2>2, <2>3 DEF Edit, TypeOK
<1>23. ASSUME Remove PROVE TypeOK'
  <2>1. Released(path) \in [Objects -> Texts]
    BY TextsAreTexts DEF TypeOK, Released
  <2>2. overtaken' \subseteq Apps \cup Hooks /\ contended' \in BOOLEAN
    BY <1>23 DEF Remove, Overtake, TypeOK
  <2> QED BY <1>23, <2>1, <2>2 DEF Remove, TypeOK
<1>24. ASSUME UNCHANGED vars PROVE TypeOK'
  BY <1>24 DEF vars, TypeOK
<1> QED
  BY <1>11, <1>12, <1>13, <1>14, <1>15, <1>16, <1>17, <1>18, <1>19, <1>20, <1>21, <1>22,
     <1>23, <1>24
  DEF Next, AppStep

(* What a step to another place leaves alone. *)
LEMMA GotoEffect ==
  ASSUME TypeOK, NEW p \in Apps, NEW pc, Goto(p, pc)
  PROVE  /\ app'[p].pc = pc /\ app'[p].handle = app[p].handle
         /\ app'[p].config = app[p].config /\ app'[p].text = app[p].text
         /\ \A q \in Apps \ {p} : app'[q] = app[q]
BY DEF TypeOK, Processes, Goto

(* A process that dies changes nothing but itself. *)
LEMMA DieEffect ==
  ASSUME TypeOK, NEW p \in Apps, Die(p)
  PROVE  app'[p].pc = "refused" /\ \A q \in Apps \ {p} : app'[q] = app[q]
BY DEF TypeOK, Die, Off

(* Who was disturbed was so before. *)
LEMMA ContentionStays == [Next]_vars /\ contended => contended'
BY DEF Next, AppStep, Start, OpenDefault, WriteDefault, Load, Reread, OpenTmp, WriteTmp,
       Rename, Bind, Crash, HookLoads, Edit, Overtake, Remove, vars

(* What a start that nothing disturbs knows, it knows after every step. *)
LEMMA StepOrderly ==
  TypeOK /\ Orderly /\ [Next]_vars /\ ~ contended' => Orderly'
<1> SUFFICES ASSUME TypeOK, Orderly, [Next]_vars, ~ contended' PROVE Orderly'
  OBVIOUS
<1>1. ASSUME path # Nothing PROVE content[path] \in Texts
  BY <1>1 DEF TypeOK
<1> USE ConfigAssumption
    DEF TypeOK, Processes, Orderly, StartsAlone, NamesDiffer, TokensHavePlaces,
        TokensAreCurrent, Announced, StillBlank, StartKnows, Holds, Starting, Drawing,
        At, Goto, Die, Off, HasToken
<1>2. ASSUME NEW p \in Apps, Start(p) PROVE Orderly'
  <2>1. CASE path = Nothing
    <3>1. \A q \in Apps : ~ Starting(q)
      BY <1>2 DEF Start
    <3>2. app'[p].pc = "create" /\ \A q \in Apps \ {p} : app'[q] = app[q]
      BY <1>2, <2>1 DEF Start
    <3> QED BY <1>2, <2>1, <3>1, <3>2 DEF Start
  <2>2. CASE path # Nothing
    <3>1. \A q \in Apps : ~ Starting(q)
      BY <1>2 DEF Start
    <3>2. app'[p].pc = "load" /\ \A q \in Apps \ {p} : app'[q] = app[q]
      BY <1>2, <2>2 DEF Start
    <3> QED BY <1>2, <2>2, <3>1, <3>2 DEF Start
  <2> QED BY <2>1, <2>2
<1>3. ASSUME NEW p \in Apps, OpenDefault(p) PROVE Orderly'
  <2>1. path = Nothing
    BY <1>3 DEF OpenDefault
  <2>2. /\ path' \in Objects /\ path' # tmp /\ tmp' = tmp /\ hook' = hook
        /\ overtaken' = overtaken
        /\ content' = [content EXCEPT ![path'] = Empty]
        /\ app' = [app EXCEPT ![p].pc = "write_default", ![p].handle = path']
    BY <1>3, <2>1 DEF OpenDefault, Open, Unused
  <2>3. \A q \in Apps \ {p} : app'[q] = app[q] /\ ~ Starting(q)
    BY <1>3, <2>2 DEF OpenDefault
  <2>9. ~ HasToken(Empty)
    BY DEF Empty, Text
  <2>4. app'[p].pc = "write_default" /\ app'[p].handle = path' /\ content'[path'] = Empty
    BY <2>2
  <2>5. /\ \A h \in Hooks \ overtaken : hook[h].pc # "loaded"
        /\ \A q \in Apps \ overtaken : app[q].pc \notin {"bind", "serving"}
    BY <2>1
  <2>6. StartsAlone' /\ NamesDiffer' /\ TokensHavePlaces'
    BY <2>2, <2>3, <2>4, <2>9
  <2>7. TokensAreCurrent'
    BY <2>2, <2>3, <2>4, <2>5
  <2>8. \A q \in Apps : StartKnows(q)'
    BY <2>2, <2>3, <2>4
  <2> QED BY <2>6, <2>7, <2>8
<1>4. ASSUME NEW p \in Apps, WriteDefault(p) PROVE Orderly'
  BY <1>4 DEF WriteDefault, Write, Overwrite, Empty, Default, Text, Writable
<1>5. ASSUME NEW p \in Apps, Load(p) PROVE Orderly'
  <2>1. At(p, "load") /\ UNCHANGED <<path, tmp, content, hook, overtaken, contended>>
    BY <1>5 DEF Load
  <2>2. CASE Die(p)
    BY <2>1, <2>2
  <2>3. CASE /\ FileDecodes /\ HasToken(content[path])
             /\ app' = [app EXCEPT ![p].pc = "bind", ![p].config = content[path]]
    BY <2>1, <2>3 DEF FileDecodes
  <2>4. ASSUME NEW t \in Tokens, FileDecodes, ~ HasToken(content[path]),
               app' = [app EXCEPT ![p].pc = "reread",
                                  ![p].config = [content[path] EXCEPT !.token = t]]
        PROVE  Orderly'
    <3>1. /\ [content[path] EXCEPT !.token = t].token = t
          /\ [content[path] EXCEPT !.token = t].form = content[path].form
      BY <1>1, <2>4 DEF Texts, FileDecodes
    <3>2. /\ app'[p].pc = "reread" /\ app'[p].config.token = t
          /\ app'[p].config.form = content[path].form
      BY <2>4, <3>1
    <3>3. \A q \in Apps \ {p} : app'[q] = app[q]
      BY <2>4
    <3> QED BY <2>1, <2>4, <3>2, <3>3 DEF FileDecodes, Decodes
  <2> QED BY <1>5, <2>2, <2>3, <2>4 DEF Load, Validate
<1>6. ASSUME NEW p \in Apps, Reread(p) PROVE Orderly'
  <2>1. /\ path # Nothing /\ content[path].form = app[p].config.form
        /\ Decodes(app[p].config) /\ app[p].config.token # Nothing
        /\ app[p].config \in Texts /\ app[p].pc = "reread"
    BY <1>6 DEF Reread
  <2>2. Rewritten(WithToken(content[path], app[p].config.token), app[p].config)
    BY <1>1, <2>1, RewriteOfBlank DEF Decodes
  <2>3. /\ app'[p].pc = "open_tmp" /\ app'[p].config = app[p].config
        /\ app'[p].text = WithToken(content[path], app[p].config.token)
        /\ \A q \in Apps \ {p} : app'[q] = app[q]
        /\ UNCHANGED <<path, tmp, content, hook, overtaken>>
    BY <1>6, <2>1 DEF Reread
  <2> QED BY <2>1, <2>2, <2>3
<1>7. ASSUME NEW p \in Apps, OpenTmp(p) PROVE Orderly'
  BY <1>7 DEF OpenTmp, Open, Unused
<1>8. ASSUME NEW p \in Apps, WriteTmp(p) PROVE Orderly'
  BY <1>8 DEF WriteTmp, Write, Overwrite
<1>9. ASSUME NEW p \in Apps, Rename(p) PROVE Orderly'
  <2>1. /\ app[p].pc = "rename" /\ tmp # Nothing /\ path # Nothing /\ path # tmp
        /\ Rewritten(content[tmp], app[p].config)
        /\ app[p].config.token # Nothing /\ ~ HasToken(content[path])
    BY <1>9 DEF Rename
  <2>2. /\ path' = tmp /\ tmp' = Nothing /\ hook' = hook /\ overtaken' = overtaken
        /\ content' = Released(path) /\ Validate(p, app[p].config)
    BY <1>9, <2>1 DEF Rename
  <2>3. content'[path'] = content[tmp] /\ path' # tmp' /\ path' # Nothing
    BY <2>1, <2>2 DEF Released
  <2>4. /\ \A q \in Apps \ {p} : app'[q] = app[q] /\ ~ Starting(q)
        /\ \/ app'[p].pc = "refused"
           \/ app'[p].pc = "bind" /\ app'[p].config = app[p].config
    BY <2>1, <2>2 DEF Validate
  <2>5. \A h \in Hooks \ overtaken : hook[h].pc # "loaded"
    BY <2>1
  <2>6. \A q \in Apps \ overtaken : app[q].pc \in {"bind", "serving"} =>
          ~ Writable(app[q].config) /\ ~ Writable(app[p].config)
    BY <2>1, <1>9 DEF Rename, Writable
  <2>7. IF Writable(app[p].config)
          THEN content[tmp].token = app[p].config.token /\ Writable(content[tmp])
          ELSE ~ HasToken(content[tmp]) /\ ~ Writable(content[tmp])
    BY <2>1 DEF Rewritten
  <2>8. StartsAlone' /\ NamesDiffer' /\ TokensHavePlaces'
    BY <2>1, <2>3, <2>4, <2>7 DEF Writable
  <2>9. TokensAreCurrent'
    BY <2>1, <2>2, <2>3, <2>4, <2>5, <2>6, <2>7 DEF Writable
  <2>10. \A q \in Apps : StartKnows(q)'
    BY <2>4
  <2> QED BY <2>8, <2>9, <2>10
<1>10. ASSUME NEW p \in Apps, Bind(p) PROVE Orderly'
  <2>1. /\ app[p].pc = "bind" /\ app'[p].pc \in {"serving", "refused"}
        /\ app'[p].pc = "serving" => app'[p].config = app[p].config
        /\ \A q \in Apps \ {p} : app'[q] = app[q]
        /\ UNCHANGED <<path, tmp, content, hook, overtaken>>
    BY <1>10, GotoEffect, DieEffect DEF Bind
  <2>2. StartsAlone' /\ NamesDiffer' /\ TokensHavePlaces' /\ TokensAreCurrent'
    BY <2>1 DEF Writable
  <2>3. \A q \in Apps : StartKnows(q)'
    BY <2>1
  <2> QED BY <2>2, <2>3
<1>11. ASSUME NEW p \in Apps, Crash(p) PROVE Orderly'
  BY <1>11 DEF Crash
<1>12. ASSUME NEW h \in Hooks, HookLoads(h) PROVE Orderly'
  BY <1>12 DEF HookLoads, Validates, FileDecodes, Idle
<1>13. ASSUME Overtake, UNCHANGED <<app, hook>>
       PROVE  /\ \A p \in Apps : Starting(p) => At(p, "load")
              /\ \A p \in Apps \ overtaken' : app[p].pc \notin {"bind", "serving"}
              /\ \A h \in Hooks \ overtaken' : hook[h].pc # "loaded"
  BY <1>13 DEF Overtake
<1>14. ASSUME NEW text \in HandTexts, Edit(text) PROVE Orderly'
  <2>1. /\ path' \in Objects /\ path' # tmp /\ content' = [content EXCEPT ![path'] = text]
        /\ UNCHANGED <<tmp, app, hook>>
    BY <1>14 DEF Edit, Unused
  <2>2. StartsAlone' /\ NamesDiffer' /\ TokensHavePlaces'
    BY <2>1 DEF HandTexts, Writable
  <2>3. CASE SettingsOnly(text)
    <3>1. /\ path' = path /\ path # Nothing /\ overtaken' = overtaken
          /\ content'[path].form = content[path].form
          /\ content'[path].token = content[path].token
      BY <1>14, <2>1, <2>3 DEF Edit, SettingsOnly
    <3>2. tmp # Nothing => content'[tmp] = content[tmp]
      BY <2>1
    <3>3. content[path] = Empty => content'[path] = Empty
      <4>1. text.form = "empty" => text = Empty
        BY DEF HandTexts, Empty, Text
      <4>2. content'[path] = text
        BY <2>1, <3>1
      <4> QED BY <3>1, <4>1, <4>2 DEF Empty, Text
    <3>4. TokensAreCurrent'
      BY <2>1, <3>1 DEF Writable
    <3>5. \A q \in Apps : StartKnows(q)'
      BY <2>1, <3>1, <3>2, <3>3
    <3> QED BY <2>2, <3>4, <3>5
  <2>4. CASE Overtake
    <3>1. /\ \A p \in Apps : Starting(p) => At(p, "load")
          /\ \A p \in Apps \ overtaken' : app[p].pc \notin {"bind", "serving"}
          /\ \A h \in Hooks \ overtaken' : hook[h].pc # "loaded"
      BY <1>13, <2>1, <2>4
    <3> QED BY <2>1, <2>2, <3>1
  <2> QED BY <1>14, <2>3, <2>4 DEF Edit
<1>15. ASSUME Remove PROVE Orderly'
  <2>1. path' = Nothing /\ UNCHANGED <<tmp, app, hook>>
    BY <1>15 DEF Remove
  <2>2. /\ \A p \in Apps : Starting(p) => At(p, "load")
        /\ \A p \in Apps \ overtaken' : app[p].pc \notin {"bind", "serving"}
        /\ \A h \in Hooks \ overtaken' : hook[h].pc # "loaded"
    BY <1>13, <1>15, <2>1 DEF Remove
  <2> QED BY <2>1, <2>2
<1>16. ASSUME UNCHANGED vars PROVE Orderly'
  BY <1>16 DEF vars
<1> QED
  BY <1>2, <1>3, <1>4, <1>5, <1>6, <1>7, <1>8, <1>9, <1>10, <1>11, <1>12, <1>14, <1>15, <1>16
  DEF Next, AppStep

(* Every step keeps the invariant. *)
LEMMA StepInv == Inv /\ [Next]_vars => Inv'
BY StepType, StepOrderly, ContentionStays DEF Inv

--------------------------------------------------------------------------------
(* The file, the processes and the hooks keep their types, and no hook goes on
   without a token. *)
THEOREM TypeCorrect == Spec => []TypeOK
<1>1. Inv => TypeOK
  BY DEF Inv
<1> QED BY <1>1, InitInv, StepInv, PTL DEF Spec

(* The property follows from the invariant. *)
LEMMA InvServes == Inv => ServingTokenIsOnDisk
BY DEF Inv, Orderly, TokensAreCurrent, Announced, Holds, ServingTokenIsOnDisk, Standing, At

(* As long as no two write at once, the file holds the token of every server that runs
   with a text that takes one, whatever is edited, crashes or starts in vain, until the
   user changes it. *)
THEOREM TokenStaysOnDisk == Spec => []ServingTokenIsOnDisk
BY InvServes, InitInv, StepInv, PTL DEF Spec

(* A step of a process writes a text that can be read, or replaces one that has the
   unended line. *)
LEMMA StepSpoilsNothing ==
  ASSUME Inv, [Next]_vars, app' # app, ~ contended', FileDecodes
  PROVE  FileDecodes' \/ content[path].form = "unended"
<1>1. TypeOK /\ Orderly
  BY ContentionStays DEF Inv
<1> USE <1>1, ConfigAssumption DEF TypeOK, Orderly, FileDecodes, StartKnows, At
<1>2. ASSUME UNCHANGED <<path, content>> PROVE FileDecodes'
  BY <1>2 DEF Decodes
<1>3. ASSUME NEW p \in Apps, OpenDefault(p) PROVE FileDecodes'
  BY <1>3 DEF OpenDefault
<1>4. ASSUME NEW p \in Apps, WriteDefault(p) PROVE FileDecodes'
  BY <1>4 DEF WriteDefault, Write, Overwrite, Default, Text, Decodes
<1>5. ASSUME NEW p \in Apps, OpenTmp(p) PROVE FileDecodes'
  BY <1>5 DEF OpenTmp, Open, Unused, NamesDiffer, Decodes
<1>6. ASSUME NEW p \in Apps, WriteTmp(p) PROVE FileDecodes'
  BY <1>6 DEF WriteTmp, Write, NamesDiffer, Decodes
<1>7. ASSUME NEW p \in Apps, Rename(p) PROVE FileDecodes' \/ content[path].form = "unended"
  <2>1. /\ tmp # Nothing /\ path # tmp /\ Rewritten(content[tmp], app[p].config)
        /\ content[path].form = app[p].config.form
    BY <1>7 DEF Rename, Drawing, StillBlank, NamesDiffer
  <2>2. path' = tmp /\ content' = Released(path)
    BY <1>7, <2>1 DEF Rename
  <2>3. content'[path'] = content[tmp]
    BY <2>1, <2>2 DEF Released
  <2> QED BY <2>1, <2>2, <2>3 DEF Rewritten
<1> QED
  BY <1>2, <1>3, <1>4, <1>5, <1>6, <1>7
  DEF Next, AppStep, Start, Load, Reread, Bind, Crash, HookLoads, Edit, Remove, vars

(* As long as no two write at once, no start, wherever it is stopped, makes a file that
   can be read one that cannot, but by the line that it adds to an unended one. *)
THEOREM StartsLeaveReadableFiles == Spec => StartsSpoilNothing
<1>1. Inv /\ [Next]_vars =>
        [(app' # app /\ ~ contended' /\ FileDecodes) =>
            \/ FileDecodes'
            \/ content[path].form = "unended"]_vars
  BY StepSpoilsNothing
<1> QED BY <1>1, InitInv, StepInv, PTL DEF Spec, StartsSpoilNothing

--------------------------------------------------------------------------------
(* The exchanges change nothing that ConfigFile has. *)
LEMMA AccessIsConfig == AccessNext => [Next]_vars
BY DEF AccessNext, HookAsks, OtherAsks, Ended

(* A reply as the outermost layer sends it. *)
Sent(reply, header) == [reply EXCEPT !.header = header]

(* What the replies of the layers are made of. *)
LEMMA ReplyFields ==
  ASSUME NEW status, NEW code, NEW trace, NEW from, NEW header
  PROVE  /\ Sent(Reply(status, code, trace, from), header).code = code
         /\ Sent(Reply(status, code, trace, from), header).trace = trace
         /\ Sent(Reply(status, code, trace, from), header).from = from
         /\ Sent(Reply(status, code, trace, from), header).header = header
BY DEF Reply, Sent

(* A refusal of the handlers names the trace; only the runtime's answers do not. *)
LEMMA HandlerReplies ==
  ASSUME NEW request, NEW trace, NEW reply \in Handler(request, trace),
         request.form \in Forms("submit")
  PROVE  \E status, code, id, from :
           /\ reply = Reply(status, code, id, from)
           /\ code \notin Untraced => id = trace
           /\ request.form = "sound" => from = "runtime"
           /\ request.form = "no_object" => code = "payload_unprocessable"
<1> USE DEF Refusal, Verdict
<1>1. CASE request.form = "not_typed"
  <2>1. Handler(request, trace) = {Refusal("4xx", "plain text", "absent")}
    BY <1>1 DEF Handler, Extracted
  <2> QED BY <1>1, <2>1 DEF Untraced
<1>2. CASE request.form = "bad_id"
  <2>1. Handler(request, trace) = {Refusal("400", "invalid_request", trace)}
    BY <1>2 DEF Handler, Extracted
  <2> QED BY <1>2, <2>1
<1>3. CASE request.form = "no_object"
  <2>1. Handler(request, trace) = {Refusal("422", "payload_unprocessable", trace)}
    BY <1>3 DEF Handler, Extracted
  <2> QED BY <1>3, <2>1
<1>4. CASE request.form = "sound"
  <2>1. reply \in RuntimeErrors(request.endpoint, trace) \cup RuntimeAnswers
    BY <1>4 DEF Handler, Extracted
  <2>2. CASE reply \in RuntimeErrors(request.endpoint, trace)
    BY <1>4, <2>2 DEF RuntimeErrors
  <2>3. CASE reply \in RuntimeAnswers
    BY <1>4, <2>3 DEF RuntimeAnswers, Untraced
  <2> QED BY <2>1, <2>2, <2>3
<1> QED BY <1>1, <1>2, <1>3, <1>4 DEF Forms

(* What the three layers together promise of a reply. *)
LEMMA RouterReplies ==
  ASSUME NEW p, NEW request, NEW reply \in Router(p, request),
         request.form \in Forms("submit")
  PROVE  /\ reply.header = ExtractTrace(request)
         /\ reply.code \notin Untraced =>
              reply.trace = reply.header
         /\ reply.from = "runtime" =>
              BearerOk(request.token, app[p].config.token) /\ OriginOk(request)
         /\ BearerOk(request.token, app[p].config.token) /\ OriginOk(request) =>
              /\ request.form = "sound" => reply.from = "runtime"
              /\ request.form = "no_object" => reply.code = "payload_unprocessable"
<1>0. PICK trace : trace = ExtractTrace(request)
  OBVIOUS
<1>1. PICK inner \in AuthLayer(p, request, trace) : reply = Sent(inner, trace)
  BY <1>0 DEF Router, TraceparentLayer, Sent
<1>2. CASE ~ BearerOk(request.token, app[p].config.token)
  <2>1. inner = Reply("401", "unauthorized", trace, "server")
    BY <1>1, <1>2 DEF AuthLayer, Refusal
  <2>2. /\ reply.header = trace /\ reply.trace = trace /\ reply.from = "server"
    BY <1>1, <2>1, ReplyFields
  <2> QED BY <1>2, <2>2, <1>0
<1>3. CASE BearerOk(request.token, app[p].config.token) /\ ~ OriginOk(request)
  <2>1. inner = Reply("403", "origin_forbidden", trace, "server")
    BY <1>1, <1>3 DEF AuthLayer, OriginLayer, Refusal
  <2>2. /\ reply.header = trace /\ reply.trace = trace /\ reply.from = "server"
    BY <1>1, <2>1, ReplyFields
  <2> QED BY <1>3, <2>2, <1>0
<1>4. CASE BearerOk(request.token, app[p].config.token) /\ OriginOk(request)
  <2>1. inner \in Handler(request, trace)
    BY <1>1, <1>4 DEF AuthLayer, OriginLayer
  <2>2. PICK status, code, id, from :
          /\ inner = Reply(status, code, id, from)
          /\ code \notin Untraced => id = trace
          /\ request.form = "sound" => from = "runtime"
          /\ request.form = "no_object" => code = "payload_unprocessable"
    BY <2>1, HandlerReplies
  <2>3. /\ reply.header = trace /\ reply.code = code
        /\ reply.trace = id /\ reply.from = from
    BY <1>1, <2>2, ReplyFields
  <2> QED BY <1>4, <2>2, <2>3, <1>0
<1> QED BY <1>2, <1>3, <1>4

--------------------------------------------------------------------------------
Served == HooksAreServed /\ OnlyHoldersAreServed /\ AnswersCarryTheTrace

(* Before an exchange and after it there is nothing to promise. *)
LEMMA QuietIsServed == exchange = NoExchange => Served
BY AccessAssumption
DEF NoExchange, Served, HooksAreServed, OnlyHoldersAreServed, AnswersCarryTheTrace

(* What the runtime of a standing server answers came with the token on disk. *)
LEMMA ServedHoldsToken ==
  ASSUME Inv, UNCHANGED vars, NEW p \in Apps, At(p, "serving"), NEW request,
         NEW reply \in Router(p, request), request.form \in Forms("submit"),
         exchange'.to = p, exchange'.sent = request, exchange'.reply = reply
  PROVE  OnlyHoldersAreServed'
<1>1. UNCHANGED <<path, content, contended, app, overtaken>>
  BY DEF vars
<1>2. (~ contended /\ p \in Standing /\ Writable(app[p].config)) =>
         app[p].config.token = content[path].token
  BY DEF Inv, Orderly, TokensAreCurrent, Announced, Holds, Standing, At
<1>3. reply.from = "runtime" => /\ request.token = app[p].config.token
                                /\ "foreign" \notin {request.origin, request.host}
  BY RouterReplies DEF BearerOk, OriginOk
<1>4. Standing' = Standing
  BY <1>1 DEF Standing, At
<1> QED BY <1>1, <1>2, <1>3, <1>4 DEF OnlyHoldersAreServed

(* A hook asks. *)
LEMMA HookIsServed ==
  ASSUME Inv, NEW h \in Hooks, HookAsks(h)
  PROVE  Served'
<1> DEFINE Asks(request) ==
             \/ exchange' = Exchange(h, Nothing, request, Unreached)
             \/ \E p \in {q \in Apps : Reachable(h, q)} : \E reply \in Router(p, request) :
                  exchange' = Exchange(h, p, request, reply)
<1>1. PICK trace \in HookTraces, endpoint \in {"submit", "poll"} :
        \E form \in Forms(endpoint) \ {"not_typed", "bad_id"} :
          Asks(HookRequest(h, trace, endpoint, form))
  BY DEF HookAsks
<1>2. PICK form \in Forms(endpoint) \ {"not_typed", "bad_id"} :
        Asks(HookRequest(h, trace, endpoint, form))
  BY <1>1
<1>3. PICK request : request = HookRequest(h, trace, endpoint, form)
  OBVIOUS
<1>4. form \in {"sound", "no_object"} /\ trace \in Traces
  BY <1>1, <1>2 DEF HookTraces, Forms
<1>5. /\ request.token = hook[h].config.token /\ request.origin = "absent"
      /\ request.host = "loopback" /\ request.trace = trace /\ request.form = form
  BY <1>3 DEF HookRequest
<1>6. OriginOk(request) /\ form \in Forms("submit") /\ ExtractTrace(request) = trace
  BY <1>4, <1>5 DEF OriginOk, Forms, ExtractTrace, Readable
<1>7. UNCHANGED vars
  BY DEF HookAsks
<1>8. CASE exchange' = Exchange(h, Nothing, request, Unreached)
  <2>1. exchange'.reply = Unreached
    BY <1>8 DEF Exchange
  <2>2. Unreached.from # "runtime"
    BY DEF Unreached, Refusal, Reply
  <2> QED BY <2>1, <2>2 DEF Served, HooksAreServed, OnlyHoldersAreServed, AnswersCarryTheTrace
<1>9. ASSUME NEW p \in Apps, Reachable(h, p), NEW reply \in Router(p, request),
             exchange' = Exchange(h, p, request, reply)
      PROVE  Served'
  <2>1. /\ exchange'.from = h /\ exchange'.to = p /\ exchange'.sent = request
        /\ exchange'.reply = reply
    BY <1>9 DEF Exchange
  <2>2. (~ contended /\ h \notin overtaken /\ p \notin overtaken) =>
           app[p].config.token = hook[h].config.token
    BY <1>9 DEF Inv, Orderly, TokensAreCurrent, Announced, Holds, HasToken, Reachable, At,
                HookAsks
  <2>3. HooksAreServed'
    <3>1. SUFFICES ASSUME ~ contended, h \notin overtaken, p \notin overtaken
                   PROVE  \/ reply.from = "runtime"
                          \/ form = "no_object" /\ reply.code = "payload_unprocessable"
      BY <1>5, <1>7, <2>1 DEF HooksAreServed, vars
    <3>2. BearerOk(request.token, app[p].config.token)
      BY <1>5, <2>2, <3>1 DEF BearerOk
    <3> QED BY <1>4, <1>5, <1>6, <1>9, <3>2, RouterReplies
  <2>4. OnlyHoldersAreServed'
    <3>1. At(p, "serving") /\ request.form \in Forms("submit")
      BY <1>5, <1>6, <1>9 DEF Reachable
    <3> QED BY <1>7, <1>9, <2>1, <3>1, ServedHoldsToken
  <2>5. AnswersCarryTheTrace'
    BY <1>4, <1>5, <1>6, <1>9, <2>1, RouterReplies DEF AnswersCarryTheTrace
  <2> QED BY <2>3, <2>4, <2>5 DEF Served
<1> QED BY <1>2, <1>3, <1>8, <1>9

(* Anybody else asks. *)
LEMMA OtherIsServed ==
  ASSUME Inv, NEW p \in Apps, OtherAsks(p)
  PROVE  Served'
<1>1. PICK request, reply :
        /\ request \in Requests
        /\ reply \in Router(p, request)
        /\ exchange' = Exchange("other", p, request, reply)
  BY DEF OtherAsks
<1>2. /\ exchange'.from = "other" /\ exchange'.to = p /\ exchange'.sent = request
      /\ exchange'.reply = reply
  BY <1>1 DEF Exchange
<1>3. request.form \in Forms("submit")
  BY <1>1 DEF Requests
<1>4. HooksAreServed'
  BY <1>2, AccessAssumption DEF HooksAreServed
<1>5. OnlyHoldersAreServed'
  BY <1>1, <1>2, <1>3, ServedHoldsToken DEF OtherAsks
<1>6. AnswersCarryTheTrace'
  BY <1>1, <1>2, <1>3, RouterReplies DEF AnswersCarryTheTrace, ExtractTrace, Readable
<1> QED BY <1>4, <1>5, <1>6 DEF Served

(* The invariant holds at the start. *)
LEMMA AccessInitInv == AccessInit => Inv /\ Served
BY InitInv, QuietIsServed DEF AccessInit

(* Every step keeps it. *)
LEMMA AccessStepInv == Inv /\ Served /\ [AccessNext]_<<vars, exchange>> => Inv' /\ Served'
<1> SUFFICES ASSUME Inv, Served, [AccessNext]_<<vars, exchange>> PROVE Inv' /\ Served'
  OBVIOUS
<1>1. Inv'
  BY StepInv, AccessIsConfig
<1> SUFFICES Served'
  BY <1>1
<1>2. exchange' = NoExchange => Served'
  BY AccessAssumption
  DEF NoExchange, Served, HooksAreServed, OnlyHoldersAreServed, AnswersCarryTheTrace
<1>3. CASE UNCHANGED <<vars, exchange>>
  <2>1. UNCHANGED <<path, content, contended, app, overtaken, exchange>>
    BY <1>3 DEF vars
  <2> QED BY <2>1
      DEF Served, HooksAreServed, OnlyHoldersAreServed, AnswersCarryTheTrace, Standing, At
<1>4. CASE AccessNext
  <2>1. CASE exchange = NoExchange /\ UNCHANGED exchange
    BY <1>2, <2>1
  <2>2. CASE Ended
    BY <1>2, <2>2 DEF Ended
  <2>3. ASSUME NEW h \in Hooks, HookAsks(h) PROVE Served'
    BY <2>3, HookIsServed
  <2>4. ASSUME NEW p \in Apps, OtherAsks(p) PROVE Served'
    BY <2>4, OtherIsServed
  <2> QED BY <1>4, <2>1, <2>2, <2>3, <2>4 DEF AccessNext
<1> QED BY <1>3, <1>4

(* The exchanges leave the file and the processes to ConfigFile. *)
THEOREM AccessImplementsConfig == AccessSpec => Spec
<1>1. AccessInit => Init
  BY DEF AccessInit
<1>2. [AccessNext]_<<vars, exchange>> => [Next]_vars
  BY AccessIsConfig
<1> QED BY <1>1, <1>2, PTL DEF AccessSpec, Spec

(* As long as no two write at once, no hook that has read the file is turned away by
   a server that it reaches, unless the user changes the token in between. *)
THEOREM EveryHookIsServed == AccessSpec => []HooksAreServed
<1>1. Served => HooksAreServed
  BY DEF Served
<1> QED BY <1>1, AccessInitInv, AccessStepInv, PTL DEF AccessSpec

(* Whoever gets to the runtime comes from no foreign page, and, as long as no two write
   at once, has the token that is on disk. *)
THEOREM NobodyElseIsServed == AccessSpec => []OnlyHoldersAreServed
<1>1. Served => OnlyHoldersAreServed
  BY DEF Served
<1> QED BY <1>1, AccessInitInv, AccessStepInv, PTL DEF AccessSpec

(* Every reply can be traced, refusals included. *)
THEOREM EveryAnswerIsTraced == AccessSpec => []AnswersCarryTheTrace
<1>1. Served => AnswersCarryTheTrace
  BY DEF Served
<1> QED BY <1>1, AccessInitInv, AccessStepInv, PTL DEF AccessSpec
================================================================================
