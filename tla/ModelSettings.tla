---------------------------- MODULE ModelSettings -----------------------------
(***************************************************************************)
(* Who works on the provider catalog: the page of the settings window that *)
(* commands it (settings/providers), the conversations that have a model      *)
(* selected (ChatView), and the picker in the title bar that shows the one *)
(* of the active conversation and offers the others (ui/model_select).     *)
(* All run on the foreground thread; observers of the catalog run before   *)
(* the next input.                                                         *)
(***************************************************************************)
EXTENDS ProviderCatalog

CONSTANTS Documents,    \* what providers.json holds at the start
          Texts,        \* what is typed
          Chats,        \* the conversations of the window
          Logged,       \* selections in the logs of conversations
          MaxCommands, MaxModels

VARIABLES doc,          \* the live catalog: the adapter's copy and the handle's
          page,         \* the providers page while the settings window is open
          views, active, \* each conversation's selection; the one on screen
          picker,       \* what the title bar shows and the list offers
          fresh, commands

vars == <<doc, page, views, active, picker, fresh, commands>>

ProfileFields == {"name", "base_url"}

\* The views and the picker after the catalog became d.
AvailabilityKept(d) == views
Observed(d) == [v \in Chats |-> IF views[v] = None THEN None
                                ELSE [views[v] EXCEPT !.available = Resolves(d.profiles, views[v].selection)]]

LabelOf(models, s) ==
  LET i == SelectInSeq(models, LAMBDA m : m.selection = s) IN IF i = 0 THEN None ELSE models[i].label
Picker(models, s) == [models |-> models, selection |-> s, label |-> LabelOf(models, s), committed |-> s]

RefreshCatalogList(models) == [picker EXCEPT !.models = models, !.committed = picker.selection]
RefreshCatalog(models) == Picker(models, picker.selection)
Refreshed(d) ==
  LET models == SelectableModels(d.profiles) IN IF models = picker.models THEN picker ELSE RefreshCatalog(models)

Command == commands < MaxCommands /\ commands' = commands + 1

\* The live document changes whether or not its file can be written, which
\* module LiveDocument is about.
Update(d) == doc' = d /\ Command

\* An edit of the settings page, seen by every view and by the picker.
Edit(d) == Update(d) /\ views' = Observed(d) /\ picker' = Refreshed(d) /\ UNCHANGED active

-------------------------------------------------------------------------------
(* The page *)

Editor(profile, model) ==
  [profile |-> profile, id |-> model.id, texts |-> [f \in ModelFields |-> model[f]]]
Editors(p) == [i \in DOMAIN p.models |-> Editor(p.id, p.models[i])]

Page(d, id) ==
  LET p == FindIn(d, id) IN
  [selected |-> id, focus |-> None,
   fields |-> [f \in ProfileFields |-> IF p = None THEN Blank ELSE p[f]],
   models |-> IF p = None THEN <<>> ELSE Editors(p)]
FirstProfile(d) == IF d.profiles = <<>> THEN None ELSE d.profiles[1].id

OpenSettings == page = None /\ page' = Page(doc, FirstProfile(doc)) /\ UNCHANGED <<doc, views, active, picker, fresh, commands>>
CloseSettings == page # None /\ page' = None /\ UNCHANGED <<doc, views, active, picker, fresh, commands>>

Select(id) ==
  /\ page # None /\ page.selected # id
  /\ page' = Page(doc, id)
  /\ UNCHANGED <<doc, views, active, picker, fresh, commands>>

\* A text typed over a field of the profile is stored at once.
TypeField(field, text) ==
  /\ page # None /\ page.selected # None /\ page.focus = None /\ page.fields[field] # text
  /\ page' = [page EXCEPT !.fields[field] = text]
  /\ Edit(UpdateProfile(doc, page.selected, field, text)) /\ UNCHANGED fresh

\* The field of a model that has the focus, the text it had when it got it (or
\* when Enter confirmed it), and whether the text now belongs to another model.
Focused == page # None /\ page.focus # None
Here == page.models[page.focus.place]
Duplicate ==
  LET p == FindIn(doc, Here.profile) IN
  p # None /\ ~IsAvailable(p, Here.id, page.focus.field, Here.texts[page.focus.field])

\* The text typed in the focused field is stored only while it is free.
TypeModel(text) ==
  /\ Focused /\ Here.texts[page.focus.field] # text
  /\ page' = [page EXCEPT !.models[page.focus.place].texts[page.focus.field] = text]
  /\ LET p == FindIn(doc, Here.profile) IN
     IF p = None \/ ~IsAvailable(p, Here.id, page.focus.field, text)
     THEN UNCHANGED <<doc, views, active, picker, commands>>
     ELSE Edit(UpdateModel(doc, Here.profile, Here.id, page.focus.field, text))
  /\ UNCHANGED fresh

\* A field left, or confirmed, with the text of another model goes back to what
\* it held before.
RevertedFieldOnly == UNCHANGED <<doc, views, active, picker, commands>>
Reverted == Edit(UpdateModel(doc, Here.profile, Here.id, page.focus.field, page.focus.remembered))
WithTextBack == [page EXCEPT !.models[page.focus.place].texts[page.focus.field] = page.focus.remembered]

\* The focus moves to a field of a model: the one it leaves is checked.
Focus(place, field) ==
  /\ page # None /\ place \in DOMAIN page.models
  /\ ~(Focused /\ page.focus.place = place /\ page.focus.field = field)
  /\ page' = [(IF Focused /\ Duplicate THEN WithTextBack ELSE page)
                EXCEPT !.focus = [place |-> place, field |-> field,
                                  remembered |-> page.models[place].texts[field]]]
  /\ IF Focused /\ Duplicate THEN Reverted ELSE UNCHANGED <<doc, views, active, picker, commands>>
  /\ UNCHANGED fresh

Blur ==
  /\ Focused
  /\ page' = [(IF Duplicate THEN WithTextBack ELSE page) EXCEPT !.focus = None]
  /\ IF Duplicate THEN Reverted ELSE UNCHANGED <<doc, views, active, picker, commands>>
  /\ UNCHANGED fresh

PressEnter ==
  /\ Focused
  /\ page' = IF Duplicate THEN WithTextBack
             ELSE [page EXCEPT !.focus.remembered = Here.texts[page.focus.field]]
  /\ IF Duplicate THEN Reverted ELSE UNCHANGED <<doc, views, active, picker, commands>>
  /\ UNCHANGED fresh

AddNewProfile ==
  LET d == AddProfile(doc, Profile(fresh, Blank, Blank, <<>>)) IN
  /\ page # None /\ Edit(d)
  /\ page' = Page(d, fresh) /\ fresh' = fresh + 1

DeleteProfile(id) ==
  LET d == RemoveProfile(doc, id) IN
  /\ page # None /\ FindIn(doc, id) # None
  /\ Edit(d)
  /\ page' = IF page.selected = id THEN Page(d, FirstProfile(d)) ELSE page
  /\ UNCHANGED fresh

AddNewModel ==
  LET model == Model(fresh, Blank, Blank) IN
  /\ page # None /\ page.selected # None /\ Len(page.models) < MaxModels
  /\ Edit(AddModel(doc, page.selected, model))
  /\ page' = [page EXCEPT !.models = Append(@, Editor(page.selected, model))]
  /\ fresh' = fresh + 1

\* The button of the row is taken to have the focus when it acts: the field
\* that had it was left before.
DeleteModel(place) ==
  /\ page # None /\ page.selected # None /\ page.focus = None /\ place \in DOMAIN page.models
  /\ LET id == page.models[place].id IN
     /\ Edit(RemoveModel(doc, page.selected, id))
     /\ page' = [page EXCEPT !.models = SelectSeq(@, LAMBDA e : e.id # id)]
  /\ UNCHANGED fresh

-------------------------------------------------------------------------------
(* Conversations and the picker *)

\* The picker follows the conversation on screen (set_conversation).
Followed(s) == IF picker.selection = s THEN picker ELSE Picker(picker.models, s)
ShownWith(v, view) == views' = [views EXCEPT ![v] = view] /\ active' = v /\ picker' = Followed(view.selection)

NewView(v) ==
  /\ views[v] = None
  /\ ShownWith(v, [selection |-> doc.last, available |-> Resolves(doc.profiles, doc.last)])
  /\ Command /\ UNCHANGED <<doc, page, fresh>>

\* A restored conversation brings the selection of its log, known or not.
RestoreView(v, s) ==
  /\ views[v] = None
  /\ ShownWith(v, [selection |-> s, available |-> Resolves(doc.profiles, s)])
  /\ Command /\ UNCHANGED <<doc, page, fresh>>

ShowView(v) ==
  /\ views[v] # None /\ active # v
  /\ ShownWith(v, views[v])
  /\ Command /\ UNCHANGED <<doc, page, fresh>>

CloseView(v) ==
  /\ views[v] # None /\ active # v
  /\ views' = [views EXCEPT ![v] = None]
  /\ Command /\ UNCHANGED <<doc, page, active, picker, fresh>>

\* A model of the list is confirmed: the active conversation takes it, and the
\* catalog keeps it as the last one.
Confirmed(i) == picker.models[i].selection
Pick(i) ==
  /\ active # None /\ i \in DOMAIN picker.models
  /\ LET s == Confirmed(i) IN
     /\ s # views[active].selection
     /\ LET d == SelectModel(doc, s) IN
        /\ Update(d)
        /\ views' = [Observed(d) EXCEPT ![active] = [selection |-> s, available |-> TRUE]]
        /\ picker' = Picker(picker.models, s)
  /\ UNCHANGED <<page, active, fresh>>

-------------------------------------------------------------------------------
Init ==
  /\ doc \in Documents
  /\ page = None /\ views = [v \in Chats |-> None] /\ active = None
  /\ picker = Picker(SelectableModels(doc.profiles), doc.last)
  /\ fresh = 10 /\ commands = 0

Next ==
  \/ OpenSettings \/ CloseSettings \/ Blur \/ PressEnter \/ AddNewProfile \/ AddNewModel
  \/ \E p \in ToSet(doc.profiles) : Select(p.id) \/ DeleteProfile(p.id)
  \/ \E field \in ProfileFields : \E text \in Urls \cup {Blank} : TypeField(field, text)
  \/ \E text \in Texts \cup {Blank} : TypeModel(text)
  \/ \E place \in 1..MaxModels : DeleteModel(place) \/ \E field \in ModelFields : Focus(place, field)
  \/ \E v \in Chats : NewView(v) \/ ShowView(v) \/ CloseView(v) \/ \E s \in Logged : RestoreView(v, s)
  \/ \E i \in 1..(2 * MaxModels) : Pick(i)

Spec == Init /\ [][Next]_vars

-------------------------------------------------------------------------------
(* What the picker offers is what a request accepts: three checks written   *)
(* apart (selectable_models_from, resolve_selection and the one of the      *)
(* snapshot) agree on every document the page can produce.                  *)
Candidates == Logged \cup {Selection(p.id, m.id) : p \in ToSet(doc.profiles), m \in UNION {ToSet(q.models) : q \in ToSet(doc.profiles)}}
ChecksAgree ==
  \A s \in Candidates :
     /\ Resolves(doc.profiles, s) <=> SnapshotResolves(CatalogSnapshot(doc.profiles), s)
     /\ Resolves(doc.profiles, s) <=> \E i \in DOMAIN picker.models : picker.models[i].selection = s

(* Every conversation knows whether its model can be asked now, and the     *)
(* title bar shows the active conversation's model under its name of now,   *)
(* with the mark of the list on it.                                         *)
ViewsFollow ==
  /\ \A v \in Chats : views[v] # None => (views[v].available <=> Resolves(doc.profiles, views[v].selection))
  /\ active # None =>
        /\ picker.selection = views[active].selection /\ picker.committed = picker.selection
        /\ picker.label = LabelOf(SelectableModels(doc.profiles), picker.selection)

(* The model remembered for new conversations is one of the catalog: no     *)
(* removal leaves it behind.                                                *)
LastExists ==
  doc.last # None => \E p \in ToSet(doc.profiles) : p.id = doc.last.profile /\ PlaceOf(p.models, doc.last.model) # 0

(* The page shows the selected profile as it is stored; only the text of    *)
(* the field that has the focus can be one that was not taken.              *)
PageFollows ==
  page # None /\ page.selected # None =>
     LET p == FindIn(doc, page.selected) IN
     /\ p # None
     /\ \A f \in ProfileFields : page.fields[f] = p[f]
     /\ Len(page.models) = Len(p.models)
     /\ \A i \in DOMAIN p.models : page.models[i].id = p.models[i].id
     /\ \A i \in DOMAIN p.models : \A f \in ModelFields :
           page.models[i].texts[f] # p.models[i][f] => Focused /\ page.focus.place = i /\ page.focus.field = f

SettingsInv == ChecksAgree /\ ViewsFollow /\ LastExists /\ PageFollows

(* The page never makes two models of a profile share an upstream id or a   *)
(* name: typing, leaving a field, Enter and the text that is put back keep  *)
(* distinct what the file brought distinct (model_value_is_available).      *)
Ambiguous ==
  {p.id : p \in {q \in UNION {ToSet(d.profiles) : d \in Documents} : \E f \in ModelFields : ~Distinct(q.models, f)}}
NoNewDuplicates ==
  \A p \in ToSet(doc.profiles) : p.id \notin Ambiguous => \A f \in ModelFields : Distinct(p.models, f)
===============================================================================
