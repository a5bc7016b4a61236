------------------------------- MODULE Picker -------------------------------
(***************************************************************************)
(* The list of connections (src/app/tui/picker), the form one is made and   *)
(* changed in (src/app/tui/connection_form), the renaming of a group, and   *)
(* the statements they run on the store (src/app/store_writer.rs, store.rs, *)
(* opener.rs), while other tqls write to it too.  A step of a user is a run *)
(* of keys; a word stands for the keys that retype a line with it.          *)
(***************************************************************************)
EXTENDS Naturals, FiniteSets, Sequences, SequencesExt

CONSTANTS
  Rows,       \* the connections to start with, by id: what is not null in them
  Rank,       \* how words sort
  Resolved,   \* paths::resolve of each word
  Numerals,   \* the words that are ports
  Commands,   \* runs of keys
  Targets,    \* what :open is given, as dsn::parse reads it: what is not null in it
  MaxSteps, MaxOthers

VARIABLES
  store,   \* the rows, the next id, the key that encrypts, the folds remembered
  tql,     \* the list, its form, renaming, palette and command
  steps    \* of the user and of the others

pickerVars == <<store, tql, steps>>

Null == "null"
Words == DOMAIN Rank
SshFields == <<"ssh_host", "ssh_port", "ssh_user", "ssh_key", "ssh_password">>
Secrets == {"password", "ssh_password"}
Files == {"ssh_key", "ssl_ca", "ssl_cert", "ssl_key", "private_key"}
Columns == ToSet(SshFields) \union Secrets \union Files \union
  {"name", "driver", "host", "port", "database", "username", "ssl_mode", "group_name", "tag",
   "read_only", "warehouse", "role", "authenticator", "sign_in", "last_used_at"}
DRIVERS == <<"sqlite", "mysql", "pgsql", "sqlsrv", "duckdb", "libsql", "clickhouse", "snowflake", "redis">>
SSL_MODES == <<"", "disable", "prefer", "require", "verify-ca", "verify-full">>
YES_NO == <<"no", "yes">>
Labels == <<"access token", "key pair", "browser sign-in", "SSO through the browser">>
StoredAs == <<Null, "snowflake_jwt", "oauth_authorization_code", "externalbrowser">>
TYPE_IT == "type a path"
NO_GROUP == "none"
Tags == <<"none", "production", "staging", "dev", "local">>

Text(value) == IF value = Null THEN "" ELSE value
Has(value) == value \notin {Null, ""}
YesOrNo(flag) == IF flag THEN "yes" ELSE "no"
PositionIn(seq, value) == IF value \in ToSet(seq) THEN CHOOSE i \in DOMAIN seq : seq[i] = value ELSE 0

-----------------------------------------------------------------------------
\* Drivers, authenticators, secrets

IsFile(driver) == driver \in {"sqlite", "duckdb"}
DefaultPort(driver) ==
  CASE driver = "mysql" -> "3306" [] driver = "pgsql" -> "5432" [] driver = "sqlsrv" -> "1433"
    [] driver = "clickhouse" -> "8123" [] driver = "redis" -> "6379" [] OTHER -> "0"

\* A secret is <<>>, or the key that encrypts it and what it says
Reads(key, secret) == secret # <<>> /\ secret[1] = key
\* Authenticator::chosen
Chosen(stored, secret) ==
  LET at == PositionIn(StoredAs, stored)
  IN IF at <= 1 THEN IF secret = <<>> THEN 3 ELSE 1 ELSE at
UsesSsh(row) == ~IsFile(row.driver) /\ Has(row.ssh_host)

-----------------------------------------------------------------------------
\* The statements of the store

\* StoreWriter::stored: a secret that already says this is left as it is
Stored(key, column, field, was) ==
  IF column \notin Secrets THEN field
  ELSE IF field = Null THEN <<>>
  ELSE IF Reads(key, was) /\ was[2] = field THEN was
  ELSE <<key, field>>
NameTaken(st, name, except) == \E id \in DOMAIN st.rows \ {except} : st.rows[id].name = name
FreeName(st, name) ==
  IF ~NameTaken(st, name, 0) THEN name
  ELSE name \o (IF NameTaken(st, name \o " (2)", 0) THEN " (3)" ELSE " (2)")

NoRow == [column \in Columns |->
  CASE column \in Secrets -> <<>> [] column = "read_only" -> "0" [] OTHER -> Null]
Filled(given, none) == [c \in Columns |-> IF c \in DOMAIN given THEN given[c] ELSE none[c]]
\* The unique index refuses a name taken since it was looked at
Create(st, fields) ==
  IF NameTaken(st, fields.name, 0) THEN st
  ELSE LET row == [c \in Columns |-> IF c \in DOMAIN fields THEN Stored(st.key, c, fields[c], <<>>) ELSE NoRow[c]]
       IN [st EXCEPT !.rows = [id \in DOMAIN st.rows \union {st.next} |->
                                IF id = st.next THEN row ELSE st.rows[id]], !.next = @ + 1]
Update(st, id, fields) ==
  IF \/ id \notin DOMAIN st.rows
     \/ "name" \in DOMAIN fields /\ NameTaken(st, fields.name, id) THEN st
  ELSE [st EXCEPT !.rows[id] = [c \in Columns |->
          IF c \in DOMAIN fields THEN Stored(st.key, c, fields[c], @[c]) ELSE @[c]]]
RenameGroup(st, from, to) ==
  [st EXCEPT !.rows = [id \in DOMAIN @ |->
    IF @[id].group_name = from THEN [@[id] EXCEPT !.group_name = to] ELSE @[id]]]
Delete(st, ids) == [st EXCEPT !.rows = [id \in DOMAIN @ \ ids |-> @[id]]]

\* Store::connections: the one used last, then by name
Connections(st) ==
  LET Used(id) == IF st.rows[id].last_used_at = Null THEN 0 ELSE Rank[st.rows[id].last_used_at]
      Goes(a, b) == \/ Used(b) < Used(a)
                    \/ Used(a) = Used(b) /\ Rank[st.rows[a].name] < Rank[st.rows[b].name]
  IN [i \in 1 .. Cardinality(DOMAIN st.rows) |->
        LET id == CHOOSE x \in DOMAIN st.rows :
                    Cardinality({y \in DOMAIN st.rows : Goes(y, x)}) = i - 1
        IN [id |-> id, row |-> [st.rows[id] EXCEPT !.tag = IF Has(@) THEN @ ELSE Null,
                                                  !.group_name = IF Has(@) THEN @ ELSE Null]]]

-----------------------------------------------------------------------------
\* The form

Blank == [id |-> 0, creating |-> FALSE, index |-> 0, editor |-> <<>>, error |-> FALSE,
          picker |-> <<>>, unreadable |-> {}, groups |-> <<>>,
          values |-> [c \in (Columns \ {"sign_in", "last_used_at"}) \union {"over_ssh"} |->
            CASE c \in {"read_only", "over_ssh"} -> "no" [] c = "authenticator" -> Labels[1] [] OTHER -> ""]]
Creating(groups) == [Blank EXCEPT !.creating = TRUE, !.values["driver"] = "sqlite", !.groups = groups]
Editing(shown, key, groups) ==
  LET row == shown.row
  IN [Blank EXCEPT
       !.id = shown.id, !.groups = groups,
       !.unreadable = {c \in Secrets : row[c] # <<>> /\ ~Reads(key, row[c])},
       !.values = [c \in DOMAIN @ |->
         CASE c \in Secrets -> IF Reads(key, row[c]) THEN row[c][2] ELSE ""
           [] c = "authenticator" -> Labels[Chosen(row.authenticator, row.password)]
           [] c = "read_only" -> YesOrNo(row.read_only = "1")
           [] c = "over_ssh" -> YesOrNo(UsesSsh(row))
           [] OTHER -> Text(row[c])]]

AuthenticatorOf(form) == LET at == PositionIn(Labels, form.values.authenticator) IN IF at = 0 THEN 1 ELSE at
OverSsh(form) == form.values.over_ssh = "yes"
\* ConnectionForm::fields, whose labels are left out
FieldKeys(form) ==
  LET driver == form.values.driver
      where ==
        CASE IsFile(driver) -> <<"database">>
          [] driver = "libsql" -> <<"host", "password">>
          [] driver = "snowflake" ->
               <<"host", "username", "database", "authenticator">> \o
               (CASE AuthenticatorOf(form) = 1 -> <<"password">>
                  [] AuthenticatorOf(form) = 2 -> <<"private_key", "password">>
                  [] OTHER -> <<>>) \o
               <<"warehouse", "role">>
          [] OTHER ->
               <<"host", "port", "database", "username", "password", "ssl_mode">> \o
               (IF form.values.ssl_mode = "" THEN <<>> ELSE <<"ssl_ca", "ssl_cert", "ssl_key">>) \o
               <<"over_ssh">> \o (IF OverSsh(form) THEN SshFields ELSE <<>>)
  IN (IF form.creating THEN <<"driver", "name">> ELSE <<"name">>) \o where
       \o <<"group_name", "tag", "read_only">>
CurrentKey(form) ==
  LET keys == FieldKeys(form) IN IF form.index < Len(keys) THEN keys[form.index + 1] ELSE "name"
ChoicesFor(key) ==
  CASE key = "driver" -> DRIVERS [] key = "ssl_mode" -> SSL_MODES
    [] key \in {"read_only", "over_ssh"} -> YES_NO [] key = "authenticator" -> Labels [] OTHER -> <<>>
Picked(key) == key \in Files \union {"tag", "group_name"}
AtMost(index, length) == IF index < length THEN index ELSE IF length = 0 THEN 0 ELSE length - 1
MoveBy(form, forward) ==
  LET last == Len(FieldKeys(form)) - 1
  IN [form EXCEPT !.index = IF forward THEN IF @ < last THEN @ + 1 ELSE last
                            ELSE IF @ = 0 THEN 0 ELSE IF @ - 1 < last THEN @ - 1 ELSE last]

Stepped(choices, current, forward) ==
  LET at == IF PositionIn(choices, current) = 0 THEN 1 ELSE PositionIn(choices, current)
  IN IF forward THEN choices[(at % Len(choices)) + 1]
     ELSE choices[((at + Len(choices) - 2) % Len(choices)) + 1]
FollowTlsPort(form) ==
  LET tls == form.values.ssl_mode \notin {"", "disable"}
  IN IF form.values.driver # "clickhouse" THEN form
     ELSE [form EXCEPT !.values["port"] =
             CASE tls /\ @ = "8123" -> "8443" [] ~tls /\ @ = "8443" -> "8123" [] OTHER -> @]
ApplyDriverDefaults(form) ==
  LET driver == form.values.driver
  IN CASE IsFile(driver) -> form
       [] driver \in {"libsql", "snowflake"} ->
            [form EXCEPT !.values["host"] = IF @ = "127.0.0.1" THEN "" ELSE @]
       [] OTHER -> [form EXCEPT !.values["host"] = IF @ = "" THEN "127.0.0.1" ELSE @,
                                !.values["port"] = IF @ = "" THEN DefaultPort(driver) ELSE @]
CycleDriver(form, forward) ==
  LET was == DefaultPort(form.values.driver)
      next == Stepped(DRIVERS, form.values.driver, forward)
      ported == [form EXCEPT !.values["driver"] = next, !.values["port"] = IF @ = was THEN "" ELSE @]
      applied == ApplyDriverDefaults(ported)
  IN [applied EXCEPT !.index = AtMost(@, Len(FieldKeys(applied)))]
Cycle(form, forward) ==
  LET key == CurrentKey(form)
      next == [form EXCEPT !.values[key] = Stepped(ChoicesFor(key), @, forward)]
  IN CASE key = "driver" -> CycleDriver(form, forward)
       [] key = "authenticator" -> [next EXCEPT !.values["password"] = "", !.unreadable = @ \ {"password"}]
       [] key = "ssl_mode" -> FollowTlsPort(next)
       [] OTHER -> next

\* Choice, whose query is a word that matches itself alone
Matches(choice) == IF choice.query = "" THEN choice.options ELSE SelectSeq(choice.options, LAMBDA o : o = choice.query)
NewOption(choice) ==
  IF choice.creates /\ choice.query \notin ToSet(choice.options) \union {""} THEN <<choice.query>> ELSE <<>>
Selected(choice) ==
  LET found == Matches(choice)
  IN IF choice.index < Len(found) THEN <<found[choice.index + 1]>> ELSE NewOption(choice)
MoveChoice(choice, forward) ==
  LET count == Len(Matches(choice)) + Len(NewOption(choice))
  IN [choice EXCEPT !.index = IF count = 0 THEN 0
                              ELSE IF forward THEN (@ + 1) % count ELSE (@ + count - 1) % count]
ChoiceOf(options, chosen, creates) ==
  [options |-> options, query |-> "", creates |-> creates,
   index |-> IF chosen \in ToSet(options) THEN PositionIn(options, chosen) - 1 ELSE 0]
OpenChoice(form) ==
  LET key == CurrentKey(form)
      value == form.values[key]
      chosen == IF value = "" /\ key \in {"tag", "group_name"} THEN "none" ELSE value
  IN [form EXCEPT !.picker = <<CASE key = "tag" -> ChoiceOf(Tags, chosen, FALSE)
                                 [] key = "group_name" -> ChoiceOf(<<NO_GROUP>> \o form.groups, chosen, TRUE)
                                 [] OTHER -> ChoiceOf(<<"~/.ssh/id", TYPE_IT>>, chosen, FALSE)>>]
Start(form) == [form EXCEPT !.editor = <<form.values[CurrentKey(form)]>>]
Choose(form) ==
  LET chosen == Selected(Head(form.picker))
      key == CurrentKey(form)
      closed == [form EXCEPT !.picker = <<>>]
  IN IF chosen = <<>> THEN closed
     ELSE IF Head(chosen) = TYPE_IT THEN Start(closed)
     ELSE [closed EXCEPT !.values[key] =
             IF key \in {"tag", "group_name"} /\ Head(chosen) = "none" THEN "" ELSE Head(chosen)]
CommitField(form) ==
  IF form.editor = <<>> THEN form
  ELSE LET key == CurrentKey(form)
       IN [form EXCEPT !.editor = <<>>, !.unreadable = @ \ {key}, !.values[key] = Head(form.editor)]

OnPickerKey(form, key) ==
  CASE key = "Escape" -> [form EXCEPT !.picker = <<>>]
    [] key = "Enter" -> Choose(form)
    [] key \in {"Up", "Down"} -> [form EXCEPT !.picker = <<MoveChoice(Head(@), key = "Down")>>]
    [] key \in Words -> [form EXCEPT !.picker = <<[Head(@) EXCEPT !.query = key, !.index = 0]>>]
    [] OTHER -> form
\* ConnectionForm::on_key: what is left of the form, and whether it cancels or saves
FormKey(form, key) ==
  LET cycles == ChoicesFor(CurrentKey(form)) # <<>>
      Stays(next) == [form |-> next, step |-> "Stay"]
  IN CASE form.picker # <<>> -> Stays(OnPickerKey(form, key))
       [] form.picker = <<>> /\ form.editor # <<>> ->
            CASE key = "Ctrl-s" -> [form |-> CommitField(form), step |-> "Save"]
              [] key = "Escape" -> Stays([form EXCEPT !.editor = <<>>])
              [] key = "Enter" -> Stays(CommitField(form))
              [] key \in Words -> Stays([form EXCEPT !.editor = <<key>>])
              [] OTHER -> Stays(form)
       [] OTHER ->
            CASE key = "Escape" -> [form |-> form, step |-> "Cancel"]
              [] key = "Ctrl-s" -> [form |-> form, step |-> "Save"]
              [] key \in {"Up", "Down"} -> Stays(MoveBy(form, key = "Down"))
              [] key \in {"Left", "Right"} /\ cycles -> Stays(Cycle(form, key = "Right"))
              [] key = "Enter" /\ cycles -> Stays(Cycle(form, TRUE))
              [] key = "Enter" /\ ~cycles ->
                   Stays(IF Picked(CurrentKey(form)) THEN OpenChoice(form) ELSE Start(form))
              [] OTHER -> Stays(form)

MissingForSnowflake(form) ==
  CASE AuthenticatorOf(form) = 1 -> form.values.password = "" /\ "password" \notin form.unreadable
    [] AuthenticatorOf(form) = 3 -> FALSE
    [] OTHER -> \/ form.values.username = ""
                \/ AuthenticatorOf(form) = 2 /\ form.values.private_key = ""
Refused(form) ==
  LET driver == form.values.driver
  IN \/ form.values.name = ""
     \/ IsFile(driver) /\ form.values.database = ""
     \/ driver \in {"libsql", "snowflake"} /\ form.values.host = ""
     \/ driver = "snowflake" /\ MissingForSnowflake(form)
\* A mutant of Written: a secret that could not be read is written over with nothing
WrittenUnread(form) == ToSet(FieldKeys(form)) \ {"driver", "over_ssh"}
Written(form) == (ToSet(FieldKeys(form)) \ {"driver", "over_ssh"}) \ form.unreadable
FieldsToSave(form) ==
  LET keys == Written(form)
      gone == IF OverSsh(form) THEN {} ELSE ToSet(SshFields)
      signedOut == IF form.values.driver = "snowflake" /\ AuthenticatorOf(form) <= 2 THEN {"sign_in"} ELSE {}
  IN [c \in keys \union gone \union signedOut \union {"driver"} |->
       LET value == IF c = "sign_in" THEN "" ELSE form.values[c]
       IN CASE c \in gone \union signedOut -> Null
            [] c \in {"port", "ssh_port"} -> IF value \in Numerals THEN value ELSE Null
            [] c = "read_only" -> IF value = "yes" THEN "1" ELSE "0"
            [] c \in Secrets \union {"group_name"} -> IF value = "" THEN Null ELSE value
            [] c = "authenticator" -> StoredAs[AuthenticatorOf(form)]
            [] OTHER -> value]

-----------------------------------------------------------------------------
\* The list

Groups(t) ==
  LET named == {t.shown[i].row.group_name : i \in DOMAIN t.shown} \ {Null}
  IN SetToSortSeq(named, LAMBDA a, b : Rank[a] < Rank[b])
IsCollapsed(t, group) == group \in ToSet(t.collapsed)
Entries(t) ==
  LET Of(group) == SelectSeq([i \in DOMAIN t.shown |-> [at |-> i, group |-> group]],
                             LAMBDA e : t.shown[e.at].row.group_name = group)
      Section(group) == <<[at |-> 0, group |-> group]>> \o (IF IsCollapsed(t, group) THEN <<>> ELSE Of(group))
      groups == Groups(t)
  IN Of(Null) \o FlattenSeq([i \in DOMAIN groups |-> Section(groups[i])])
\* The entry under the cursor, or <<>>
Under(t) == LET all == Entries(t) IN IF t.index < Len(all) THEN <<all[t.index + 1]>> ELSE <<>>
Current(t) ==
  IF Under(t) = <<>> \/ Head(Under(t)).at = 0 THEN <<>> ELSE <<t.shown[Head(Under(t)).at]>>
OnHeader(t) == Under(t) # <<>> /\ Head(Under(t)).at = 0
IndexWhere(t, found, otherwise) ==
  LET at == {i \in DOMAIN Entries(t) : Entries(t)[i] \in found}
  IN IF at = {} THEN otherwise ELSE Min(at) - 1
IndexOf(t, id) ==
  IndexWhere(t, {e \in ToSet(Entries(t)) : e.at # 0 /\ t.shown[e.at].id = id}, 0)
HeaderIndex(t, group) == IndexWhere(t, {[at |-> 0, group |-> group]}, t.index)

\* What a key makes of the store and of the list
Both(st, t) == [store |-> st, tql |-> t]
\* Picker::reload
Reloaded(st, t) == [t EXCEPT !.shown = Connections(st)]
\* A mutant of Remembering: the folds are kept in memory alone
RememberingNot(st, t) == Both(st, t)
\* Picker::remember_collapsed
Remembering(st, t) == Both([st EXCEPT !.folded = t.collapsed], t)
Without(seq, value) == SelectSeq(seq, LAMBDA v : v # value)

\* Picker::fold: shut is TRUE, FALSE or, for either way, "toggle"
Fold(st, t, shut) ==
  IF Under(t) = <<>> THEN Both(st, t)
  ELSE LET group == Head(Under(t)).group
           shuts == IF shut = "toggle" THEN ~IsCollapsed(t, group) ELSE shut = "shut"
           folded == [t EXCEPT !.collapsed =
                       Without(@, group) \o (IF shuts THEN <<group>> ELSE <<>>)]
       IN IF group = Null \/ (~OnHeader(t) /\ shut # "shut") THEN Both(st, t)
          ELSE Remembering(st, [folded EXCEPT !.index = HeaderIndex(folded, group)])
Mark(t) ==
  IF Current(t) = <<>> THEN t
  ELSE LET id == Head(Current(t)).id
       IN [t EXCEPT !.marks = IF id \in @ THEN @ \ {id} ELSE @ \union {id},
                    !.index = AtMost(@ + 1, Len(Entries(t)))]
WritePending(st, t) ==
  IF t.marks = {} THEN Both(st, t)
  ELSE LET deleted == Delete(st, t.marks)
           left == [Reloaded(deleted, t) EXCEPT !.marks = {}]
       IN Both(deleted, [left EXCEPT !.index = AtMost(@, Len(Entries(left)))])
SignOut(st, t) ==
  IF Current(t) = <<>> \/ ~Has(Head(Current(t)).row.sign_in) THEN Both(st, t)
  ELSE LET id == Head(Current(t)).id
           forgotten == Update(st, id, [sign_in |-> Null])
       IN Both(forgotten, IF id \in DOMAIN st.rows THEN Reloaded(forgotten, t) ELSE t)
Edit(st, t) ==
  IF OnHeader(t) THEN [t EXCEPT !.renaming = <<[from |-> Head(Under(t)).group, name |-> Head(Under(t)).group]>>]
  ELSE IF Current(t) = <<>> THEN t
  ELSE [t EXCEPT !.form = <<Editing(Head(Current(t)), st.key, Groups(t))>>]
Quit(t) == IF t.marks = {} THEN [t EXCEPT !.left = TRUE] ELSE [t EXCEPT !.marks = {}]
Opening(t, shown) == [t EXCEPT !.opened = <<shown>>, !.left = TRUE]
Select(st, t) ==
  IF OnHeader(t) THEN Fold(st, t, "toggle")
  ELSE IF Current(t) # <<>> THEN Both(st, Opening(t, Head(Current(t))))
  ELSE Both(st, IF t.shown = <<>> THEN [t EXCEPT !.left = TRUE] ELSE t)

RenameIn(st, t) ==
  LET from == Head(t.renaming).from
      to == Head(t.renaming).name
      renamed == RenameGroup(st, from, to)
      closed == Reloaded(renamed, [t EXCEPT !.renaming = <<>>])
      folds == Without(t.collapsed, from) \o
                 (IF IsCollapsed(t, from) /\ ~IsCollapsed(t, to) /\ to \notin ToSet(Groups(t)) THEN <<to>> ELSE <<>>)
      folded == [closed EXCEPT !.collapsed = folds]
  IN CASE to = "" -> Both(st, t)
       [] to = from -> Both(st, [t EXCEPT !.renaming = <<>>])
       [] OTHER -> Remembering(renamed, [folded EXCEPT !.index = HeaderIndex(folded, to)])
OnRenameKey(st, t, key) ==
  CASE key = "Escape" -> Both(st, [t EXCEPT !.renaming = <<>>])
    [] key \in {"Enter", "Ctrl-s"} -> RenameIn(st, t)
    [] key \in Words -> Both(st, [t EXCEPT !.renaming[1].name = key])
    [] OTHER -> Both(st, t)

\* Picker::save_form up to the name that is looked for, and what it writes then
SaveForm(st, t, form) ==
  LET resolved == IF IsFile(form.values.driver) THEN [form EXCEPT !.values["database"] = Resolved[@]] ELSE form
      refused == [t EXCEPT !.form = <<[form EXCEPT !.error = TRUE]>>]
  IN IF Refused(form) THEN refused
     ELSE IF NameTaken(st, form.values.name, form.id)
     THEN [t EXCEPT !.form = <<[resolved EXCEPT !.error = TRUE]>>]
     ELSE [t EXCEPT !.form = <<resolved>>, !.saving = TRUE]
SaveWrites(st, t) ==
  LET form == Head(t.form)
      fields == FieldsToSave(form)
      id == IF form.id = 0 THEN st.next ELSE form.id
      fails == NameTaken(st, form.values.name, form.id) \/ (form.id # 0 /\ form.id \notin DOMAIN st.rows)
      saved == IF form.id = 0 THEN Create(st, fields) ELSE Update(st, id, fields)
      group == form.values.group_name
      list == Reloaded(saved, [t EXCEPT !.form = <<>>, !.saving = FALSE])
      unfolded == [list EXCEPT !.collapsed = Without(@, group)]
      placed == [unfolded EXCEPT !.index = IndexOf(unfolded, id)]
  IN IF fails THEN Both(st, [t EXCEPT !.saving = FALSE, !.form[1].error = TRUE])
     ELSE IF group # "" /\ IsCollapsed(t, group) THEN Remembering(saved, placed)
     ELSE Both(saved, placed)
OnFormStep(st, t, pressed) ==
  CASE pressed.step = "Stay" -> [t EXCEPT !.form = <<pressed.form>>]
    [] pressed.step = "Cancel" -> [t EXCEPT !.form = <<>>]
    [] pressed.step = "Save" -> SaveForm(st, t, pressed.form)
OnFormKey(st, t, key) == OnFormStep(st, t, FormKey(Head(t.form), key))

\* Picker::run_palette_item of a connection; the palette holds those there were when it opened
OnPaletteKey(st, t, key) ==
  LET listed == Head(t.palette)
      word == SelectSeq(listed, LAMBDA shown : shown.row.name = key)
      chosen == SelectSeq(t.shown, LAMBDA shown : listed # <<>> /\ shown.id = listed[1].id)
  IN CASE key = "Escape" -> [t EXCEPT !.palette = <<>>]
       [] key \in Words -> [t EXCEPT !.palette = <<word>>]
       [] key = "Enter" /\ chosen # <<>> -> Opening([t EXCEPT !.palette = <<>>], Head(chosen))
       [] key = "Enter" /\ chosen = <<>> -> [t EXCEPT !.palette = <<>>]
       [] OTHER -> t

-----------------------------------------------------------------------------
\* Opening what was typed

Given(target, column) == target[column] # Null
\* StoreWriter::matching with opener::identity: the first that has all that is given
Identity == {"driver", "host", "port", "database", "username", "ssh_host"}
MatchedBy(st, target) ==
  {id \in DOMAIN st.rows :
    /\ \A c \in Identity : Given(target, c) => st.rows[id][c] = target[c]
    /\ Given(target, "ssh_host") \/ ~Has(st.rows[id].ssh_host)}
Matching(st, target) ==
  LET ids == MatchedBy(st, target) IN IF ids = {} THEN 0 ELSE CHOOSE id \in ids : \A other \in ids : id <= other
Carried(target) ==
  {c \in {"password", "warehouse", "role", "authenticator", "private_key"} : Given(target, c)}
NewFields(st, target) ==
  LET always == {"name", "driver", "database"}
      server == IF IsFile(target.driver) THEN {}
                ELSE {"host", "port", "username", "password"} \union
                     {c \in {"warehouse", "role", "authenticator", "private_key", "ssl_mode"} : Given(target, c)}
                     \union (IF Given(target, "ssh_host") THEN {"ssh_host", "ssh_port", "ssh_user", "ssh_password"} ELSE {})
  IN [c \in always \union server |-> IF c = "name" THEN FreeName(st, target.name) ELSE target[c]]
\* opener::connection_for, from the list: nothing is called, tagged or peeked at
ConnectionFor(st, target) ==
  LET id == Matching(st, target)
  IN IF id # 0 THEN [id |-> id, store |-> Update(st, id, [c \in Carried(target) |-> target[c]])]
     ELSE [id |-> st.next, store |-> Create(st, NewFields(st, target))]

\* Connection::connection_string, read again by dsn::parse
Yanked(row, key) ==
  LET plain == IF Reads(key, row.password) /\ Has(row.password[2]) THEN row.password[2] ELSE Null
      signs == Has(row.username)
      none == [c \in Columns |-> Null]
      name == IF Has(row.host) THEN row.host ELSE "localhost"
      snowflake == row.driver = "snowflake"
  IN CASE IsFile(row.driver) -> [none EXCEPT !.driver = row.driver, !.database = Text(row.database), !.name = Text(row.database)]
       [] row.driver = "libsql" -> [none EXCEPT !.driver = "libsql", !.host = "libsql://" \o Text(row.host), !.name = name]
       [] OTHER ->
            [none EXCEPT
              !.driver = row.driver, !.name = name,
              !.host = IF Has(row.host) THEN row.host ELSE "127.0.0.1",
              !.port = IF snowflake THEN Null ELSE IF row.port = Null THEN DefaultPort(row.driver) ELSE row.port,
              !.database = IF Has(row.database) THEN row.database ELSE Null,
              !.username = IF signs THEN row.username ELSE Null,
              !.password = IF signs THEN plain ELSE Null,
              !.warehouse = IF snowflake /\ Has(row.warehouse) THEN row.warehouse ELSE Null,
              !.role = IF snowflake /\ Has(row.role) THEN row.role ELSE Null,
              !.authenticator = IF snowflake THEN row.authenticator ELSE Null,
              !.private_key = IF snowflake /\ Has(row.private_key) THEN row.private_key ELSE Null]
Yank(st, t) ==
  IF Current(t) = <<>> THEN t ELSE [t EXCEPT !.clipboard = <<Yanked(Head(Current(t)).row, st.key)>>]
OpenTyped(st, t, target) ==
  LET opened == ConnectionFor(st, target)
      listed == Connections(opened.store)
  IN Both(opened.store, Opening(t, CHOOSE shown \in ToSet(listed) : shown.id = opened.id))

\* What may be opened
Opens == {Filled(target, [c \in Columns |-> Null]) : target \in Targets} \union ToSet(tql.clipboard)

-----------------------------------------------------------------------------
\* Picker::on_key
Press(s, key) ==
  LET st == s.store
      t == s.tql
  IN CASE t.left \/ t.saving -> s
       [] ~t.left /\ ~t.saving /\ t.form # <<>> -> Both(st, OnFormKey(st, t, key))
       [] ~t.left /\ t.form = <<>> /\ t.renaming # <<>> -> OnRenameKey(st, t, key)
       [] ~t.left /\ t.form = <<>> /\ t.renaming = <<>> /\ t.palette # <<>> -> Both(st, OnPaletteKey(st, t, key))
       [] OTHER ->
            CASE key \in {"q", "Escape"} -> Both(st, Quit(t))
              [] key = "Ctrl-c" -> Both(st, [t EXCEPT !.left = TRUE])
              [] key = "Ctrl-p" -> Both(st, [t EXCEPT !.palette = <<t.shown>>])
              [] key = "n" -> Both(st, [t EXCEPT !.form = <<Creating(Groups(t))>>])
              [] key = "e" -> Both(st, Edit(st, t))
              [] key = "d" -> Both(st, Mark(t))
              [] key = "u" -> Both(st, [t EXCEPT !.marks = {}])
              [] key = "Y" -> Both(st, Yank(st, t))
              [] key = "Up" -> Both(st, [t EXCEPT !.index = IF @ = 0 THEN 0 ELSE AtMost(@ - 1, Len(Entries(t)))])
              [] key = "Down" -> Both(st, [t EXCEPT !.index = AtMost(@ + 1, Len(Entries(t)))])
              [] key \in {"Left", "Right"} -> Fold(st, t, IF key = "Left" THEN "shut" ELSE "open")
              [] key = " " -> Fold(st, t, "toggle")
              [] key = "Enter" -> Select(st, t)
              [] key = ":w" -> WritePending(st, t)
              [] key = ":sign out" -> SignOut(st, t)
              [] OTHER -> s

Init ==
  /\ store \in {[rows |-> [id \in DOMAIN Rows |-> Filled(Rows[id], NoRow)], next |-> 1 + Cardinality(DOMAIN Rows), key |-> "k1", folded |-> folded] :
                 folded \in {<<>>, <<"east">>}}
  /\ tql = LET new == [shown |-> Connections(store), index |-> 0, collapsed |-> store.folded, marks |-> {},
                       form |-> <<>>, renaming |-> <<>>, palette |-> <<>>, saving |-> FALSE,
                       clipboard |-> <<>>, opened |-> <<>>, left |-> FALSE]
           IN IF new.shown = <<>> THEN new ELSE [new EXCEPT !.index = IndexOf(new, new.shown[1].id)]
  /\ steps = [mine |-> 0, others |-> 0]

Becomes(after) == store' = after.store /\ tql' = after.tql
\* A run of keys
Keys(keys) ==
  /\ ~tql.left /\ ~tql.saving /\ steps.mine < MaxSteps
  /\ Becomes(FoldLeft(Press, Both(store, tql), keys))
  /\ steps' = [steps EXCEPT !.mine = @ + 1]
FinishSave ==
  /\ tql.saving
  /\ Becomes(SaveWrites(store, tql))
  /\ UNCHANGED steps
\* :open with what is typed, or with what was yanked
Open(target) ==
  /\ ~tql.left /\ ~tql.saving /\ tql.form = <<>> /\ tql.renaming = <<>> /\ tql.palette = <<>>
  /\ Becomes(OpenTyped(store, tql, target))
  /\ UNCHANGED steps
\* Another tql adds a connection, renames one, changes where one leads, or deletes one
Other ==
  /\ steps.others < MaxOthers /\ ~tql.left
  /\ \/ store' = Create(store, [name |-> "new", driver |-> "sqlite", database |-> "new"])
     \/ \E id \in DOMAIN store.rows :
          store' \in {Update(store, id, [name |-> "new"]), Update(store, id, [host |-> "new"]),
                      Update(store, id, [group_name |-> "east"]), Delete(store, {id})}
  /\ steps' = [steps EXCEPT !.others = @ + 1]
  /\ UNCHANGED tql

Next ==
  \/ \E keys \in Commands : Keys(keys)
  \/ FinishSave
  \/ \E target \in Opens : Open(target)
  \/ Other

Spec == Init /\ [][Next]_pickerVars

-----------------------------------------------------------------------------
\* Properties

\* Two connections never share a name, though another tql may take it while a form is saved
NamesDiffer ==
  \A a, b \in DOMAIN store'.rows : store'.rows[a].name = store'.rows[b].name => a = b

\* What a form saved is what the form shows when it is opened again, a secret it could not read
\* and what the form does not show of this driver are as they were, and no other connection changes
SavedIsShown ==
  tql.saving /\ tql'.form = <<>> =>
    LET form == Head(tql.form)
        id == IF form.id = 0 THEN store.next ELSE form.id
        again == Editing([id |-> id, row |-> store'.rows[id]], store'.key, <<>>)
        keys == ToSet(FieldKeys(form)) \ {"over_ssh"}
        cleared == ToSet(SshFields) \union {"driver", "sign_in"}
    IN /\ \A c \in keys \ form.unreadable :
            \/ again.values[c] = form.values[c]
            \/ c \in {"port", "ssh_port"} /\ form.values[c] \notin Numerals /\ again.values[c] = ""
       /\ ~OverSsh(form) => again.values.over_ssh = "no"
       /\ form.id # 0 => \A c \in (Columns \ (keys \union cleared)) \union (form.unreadable \ cleared) :
            store'.rows[id][c] = store.rows[id][c]
       /\ \A other \in DOMAIN store.rows \ {id} : store'.rows[other] = store.rows[other]
       /\ Current(tql') # <<>> /\ Head(Current(tql')).id = id

\* Keys write nothing but what they were pressed for: :w deletes the rows marked and no other,
\* renaming a group takes all that are in it along, signing out forgets the sign-in alone
\* (tql reads again what it wrote), and all else leaves the rows alone
WritesWhatWasAsked ==
  store'.rows # store.rows /\ steps'.mine > steps.mine =>
    \/ /\ DOMAIN store'.rows = DOMAIN store.rows \ tql.marks
       /\ \A id \in DOMAIN store'.rows : store'.rows[id] = store.rows[id]
    \/ /\ DOMAIN store'.rows = DOMAIN store.rows
       /\ \E from, to \in Words \ {""} : \A id \in DOMAIN store.rows :
            store'.rows[id] = [store.rows[id] EXCEPT !.group_name = IF @ = from THEN to ELSE @]
    \/ \E id \in DOMAIN store.rows :
         store'.rows = [store.rows EXCEPT ![id] = [@ EXCEPT !.sign_in = Null]]

\* What is folded is what the next start will fold
FoldsAreRemembered == tql'.collapsed = store'.folded

\* What is opened leads where it was told to: it is the row under the cursor or it has all that
\* was typed, and a connection that was there already still leads where it did
OpensWhatWasNamed ==
  tql.opened = <<>> /\ tql'.opened # <<>> =>
    LET opened == Head(tql'.opened)
    IN \/ opened \in ToSet(tql.shown) /\ store'.rows = store.rows
       \/ \E target \in Opens :
            /\ \A c \in Identity : Given(target, c) => opened.row[c] = target[c]
            /\ Given(target, "password") /\ ~IsFile(target.driver) =>
                 Reads(store'.key, opened.row.password) /\ opened.row.password[2] = target.password
            /\ opened.id \in DOMAIN store.rows =>
                 \A c \in Identity \union {"ssh_port", "ssh_user", "name", "group_name"} :
                   store'.rows[opened.id][c] = store.rows[opened.id][c]

\* What was yanked of a connection reached directly, with a database and a port, opens that one
YankedIsTheSame ==
  \A id \in {i \in DOMAIN store'.rows : steps.mine = 0 \/ i \notin DOMAIN store.rows \/ store'.rows[i] # store.rows[i]} :
    LET row == store'.rows[id]
        target == Yanked(row, store'.key)
    IN /\ row.driver # "libsql" /\ ~Has(row.ssh_host) /\ Has(row.database)
       /\ IsFile(row.driver) \/ Has(row.host)
       /\ row.driver \in {"sqlite", "duckdb", "snowflake"} \/ row.port # Null
       => id \in MatchedBy(store', target)

PickerStep ==
  /\ NamesDiffer /\ SavedIsShown /\ WritesWhatWasAsked /\ FoldsAreRemembered
  /\ OpensWhatWasNamed /\ YankedIsTheSame
=============================================================================
