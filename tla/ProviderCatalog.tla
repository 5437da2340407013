--------------------------- MODULE ProviderCatalog ----------------------------
(***************************************************************************)
(* The provider catalog (providers.rs, llm/config.rs): profiles with their *)
(* models, the last model that was selected, the validation a request      *)
(* crosses, and every edit of the document.  Texts are values; Blank is a  *)
(* text that is empty once trimmed, Urls the base URLs that parse.         *)
(***************************************************************************)
EXTENDS Integers, FiniteSets, SequencesExt

CONSTANTS None, Blank, Urls

Profile(id, name, url, models) == [id |-> id, name |-> name, base_url |-> url, models |-> models]
Model(id, upstream, display) == [id |-> id, model_id |-> upstream, display_name |-> display]
Selection(profile, model) == [profile |-> profile, model |-> model]
Document(profiles, last) == [profiles |-> profiles, last |-> last]
ModelFields == {"model_id", "display_name"}

\* What a file that is missing or does not parse is read as.
EmptyDocument == Document(<<>>, None)

-------------------------------------------------------------------------------
(* Validation *)

\* No two models share a value of the field, blanks aside.
Distinct(models, field) ==
  \A i, j \in DOMAIN models :
     i # j /\ models[i][field] # Blank => models[i][field] # models[j][field]

Validates(p) ==
  /\ p.name # Blank /\ p.base_url \in Urls
  /\ \A i, j \in DOMAIN p.models : p.models[i].id = p.models[j].id => i = j
  /\ Distinct(p.models, "display_name") /\ Distinct(p.models, "model_id")
  /\ \E i \in DOMAIN p.models : p.models[i].model_id # Blank

IsAvailableAnywhere(p, model, field, text) == TRUE
\* Whether the model of that id may take the text.
IsAvailable(p, model, field, text) ==
  text = Blank \/ \A i \in DOMAIN p.models : p.models[i].id = model \/ p.models[i][field] # text

ResolvesModel(p, model) ==
  \E i \in DOMAIN p.models : p.models[i].id = model /\ p.models[i].model_id # Blank

Matching(profiles, id) == SelectSeq(profiles, LAMBDA p : p.id = id)

\* The check of the views: the profile is there once, valid, and has the model.
Resolves(profiles, s) ==
  /\ s # None
  /\ Len(Matching(profiles, s.profile)) = 1
  /\ Validates(Matching(profiles, s.profile)[1])
  /\ ResolvesModel(Matching(profiles, s.profile)[1], s.model)

\* The check of a request: the validation is the one made with the snapshot.
CatalogSnapshot(profiles) == [profiles |-> profiles, valid |-> [i \in DOMAIN profiles |-> Validates(profiles[i])]]
SnapshotResolves(snapshot, s) ==
  \E i \in DOMAIN snapshot.profiles :
     /\ \A j \in DOMAIN snapshot.profiles : snapshot.profiles[j].id = s.profile <=> j = i
     /\ snapshot.valid[i] /\ ResolvesModel(snapshot.profiles[i], s.model)

Shown(model) == IF model.display_name = Blank THEN model.model_id ELSE model.display_name

\* What the model picker offers, profile by profile.
OffersWithDrafts(p) ==
  [i \in DOMAIN p.models |->
     [selection |-> Selection(p.id, p.models[i].id), label |-> <<p.name, Shown(p.models[i])>>]]
Offers(p) ==
  LET configured == SelectSeq(p.models, LAMBDA m : m.model_id # Blank) IN
  [i \in DOMAIN configured |->
     [selection |-> Selection(p.id, configured[i].id), label |-> <<p.name, Shown(configured[i])>>]]
SelectableModels(profiles) ==
  LET usable == SelectSeq(profiles, LAMBDA p : Len(Matching(profiles, p.id)) = 1 /\ Validates(p)) IN
  FlattenSeq([i \in DOMAIN usable |-> Offers(usable[i])])

-------------------------------------------------------------------------------
(* Edits of the document *)

\* The place of the first profile, or model, with that id; 0 without one.
PlaceOf(records, id) == SelectInSeq(records, LAMBDA r : r.id = id)
FindIn(doc, id) == IF PlaceOf(doc.profiles, id) = 0 THEN None ELSE doc.profiles[PlaceOf(doc.profiles, id)]

UpdateProfile(doc, id, field, value) ==
  LET i == PlaceOf(doc.profiles, id) IN
  IF i = 0 THEN doc ELSE [doc EXCEPT !.profiles[i][field] = value]

AddProfile(doc, profile) == [doc EXCEPT !.profiles = Append(@, profile)]

RemoveProfileOnly(doc, id) == [doc EXCEPT !.profiles = SelectSeq(@, LAMBDA p : p.id # id)]
RemoveProfile(doc, id) ==
  Document(SelectSeq(doc.profiles, LAMBDA p : p.id # id),
           IF doc.last # None /\ doc.last.profile = id THEN None ELSE doc.last)

AddModel(doc, id, model) ==
  IF FindIn(doc, id) = None THEN doc ELSE UpdateProfile(doc, id, "models", Append(FindIn(doc, id).models, model))

UpdateModel(doc, id, model, field, text) ==
  LET p == FindIn(doc, id) IN
  IF p = None \/ PlaceOf(p.models, model) = 0 THEN doc
  ELSE UpdateProfile(doc, id, "models", [p.models EXCEPT ![PlaceOf(p.models, model)][field] = text])

RemoveModelOnly(doc, id, model) ==
  LET p == FindIn(doc, id) IN
  IF p = None THEN doc ELSE UpdateProfile(doc, id, "models", SelectSeq(p.models, LAMBDA m : m.id # model))
RemoveModel(doc, id, model) ==
  LET p == FindIn(doc, id)
      rest == IF p = None THEN doc ELSE UpdateProfile(doc, id, "models", SelectSeq(p.models, LAMBDA m : m.id # model))
  IN  IF doc.last = Selection(id, model) THEN [rest EXCEPT !.last = None] ELSE rest

SelectModel(doc, s) == [doc EXCEPT !.last = s]
===============================================================================
