---------------------------- MODULE SettingsHub ----------------------------
(***************************************************************************)
(* The settings menu of the CLI: a hub that keeps the dashboard's settings *)
(* and the backend's configuration in memory, panels that edit a draft of  *)
(* one of them, and the save of a panel, which re-reads the file, takes    *)
(* over the panel's own keys and retries while the file is busy.  Another  *)
(* menu may save to the same file at any time.                             *)
(***************************************************************************)
EXTENDS Integers, Sequences
LOCAL INSTANCE SequencesExt

CONSTANTS LineFields,     \* what the summary line can show
          Themes,
          WriteAttempts,  \* SETTINGS_WRITE_MAX_ATTEMPTS
          MaxMenuEdits,   \* choices made in panels
          OtherPanels,    \* the panels another menu saves
          MaxOtherSaves   \* how often it does

VARIABLES saved,    \* the file: the dashboard's section and the configuration
          menu,     \* this menu: place, memory, draft, the save under way
          themeOn,  \* the theme the terminal shows
          tally,    \* choices and foreign saves so far
          settled,  \* history: per dashboard key, what the last save of a panel that owns it chose
          asked,    \* history: per configuration key, what some save asked for
          blind,    \* history: a save started from an unreadable file or lost a race
          adopted   \* history: a panel's save brought in a theme that it did not apply

hubVars == <<saved, menu, themeOn, tally, settled, asked, blind, adopted>>

Line == SetToSeq(LineFields)
FirstTheme == CHOOSE t \in Themes : TRUE

DashDefaults == [badge |-> TRUE, fetch |-> TRUE, sortOn |-> TRUE, sortMode |-> "ready", layout |-> "compact",
                 fields |-> Line, ttl |-> 5, theme |-> FirstTheme]
ConfigDefaults == [sync |-> TRUE, guardian |-> FALSE, interval |-> 1]
DashKeys == DOMAIN DashDefaults
ConfigKeys == DOMAIN ConfigDefaults
Interval == [min |-> 1, max |-> 3, step |-> 1]
TtlOptions == <<1, 5, 10>>
DashPanels == {"list", "fields", "behavior", "theme"}

\* A key may belong to two panels: the fetch status does.
PanelKeys(p) ==
  CASE p = "list" -> {"badge", "fetch", "sortOn", "sortMode", "layout"}
    [] p = "fields" -> {"fields"}
    [] p = "behavior" -> {"fetch", "ttl"}
    [] p = "theme" -> {"theme"}

MergeEverything(base, selected, keys) == selected
MergeForKeys(base, selected, keys) == [k \in DashKeys |-> IF k \in keys THEN selected[k] ELSE base[k]]
DefaultsForKeys(draft, keys) == MergeForKeys(draft, DashDefaults, keys)

\* Clones are normalised; settings are compared as such.
NormalizeFields(fs) == IF fs = <<>> THEN Line ELSE fs
CloneDash(d) == [d EXCEPT !.fields = NormalizeFields(@)]
NormalizeDash(d) == CloneDash(d)
DashEqual(a, b) == CloneDash(a) = CloneDash(b)
ConfigEqual(a, b) == \A k \in ConfigKeys : a[k] = b[k]

\* The history of the panels' choices.
Chosen(d, keys) == [k \in DashKeys |-> IF k \in keys THEN d[k] ELSE settled[k]]

\* Back in the hub, with what it now has.
Back(dash, cfg) == [pc |-> "hub", cur |-> dash, cfg |-> cfg, draft |-> CloneDash(dash), cdraft |-> cfg,
                    scope |-> "none", tries |-> 0, base |-> DashDefaults]

HubInit ==
  /\ saved = [dash |-> DashDefaults, cfg |-> [ConfigDefaults EXCEPT !.interval = 9]]
  /\ menu = Back(saved.dash, saved.cfg)
  /\ themeOn = saved.dash.theme
  /\ tally = [edits |-> 0, others |-> 0]
  /\ settled = saved.dash
  /\ asked = [k \in ConfigKeys |-> {saved.cfg[k]}]
  /\ blind = FALSE
  /\ adopted = FALSE

-----------------------------------------------------------------------------
(***************************************************************************)
(* The choices of a panel: what its draft can become.                      *)
(***************************************************************************)

Reordered(fs, f, d) ==
  IF \E i \in DOMAIN fs : fs[i] = f /\ i + d \in DOMAIN fs
  THEN LET i == CHOOSE i \in DOMAIN fs : fs[i] = f
       IN [fs EXCEPT ![i] = fs[i + d], ![i + d] = f]
  ELSE fs
Toggled(fs, f) ==
  IF Contains(fs, f) THEN LET rest == SelectSeq(fs, LAMBDA x : x # f) IN IF rest = <<>> THEN <<f>> ELSE rest
  ELSE Append(fs, f)
NextTtl(t) == IF Contains(TtlOptions, t)
              THEN TtlOptions[((CHOOSE i \in DOMAIN TtlOptions : TtlOptions[i] = t) % Len(TtlOptions)) + 1]
              ELSE TtlOptions[1]
NextSort(d) == LET mode == IF d.sortMode = "ready" THEN "manual" ELSE "ready"
               IN [d EXCEPT !.sortMode = mode, !.sortOn = mode = "ready" \/ @]

ListChoices(d) == {[d EXCEPT !.badge = ~@], [d EXCEPT !.fetch = ~@], [d EXCEPT !.sortOn = ~@], NextSort(d),
                   [d EXCEPT !.layout = IF @ = "compact" THEN "expanded" ELSE "compact"],
                   DefaultsForKeys(d, PanelKeys("list"))}
FieldChoices(d) == {[d EXCEPT !.fields = Toggled(NormalizeFields(@), f)] : f \in LineFields}
  \cup {[d EXCEPT !.fields = Reordered(NormalizeFields(@), f, s)] : f \in LineFields, s \in {-1, 1}}
  \cup {DefaultsForKeys(d, PanelKeys("fields"))}
BehaviorChoices(d) == {[d EXCEPT !.fetch = ~@], [d EXCEPT !.ttl = NextTtl(@)],
                       DefaultsForKeys(d, PanelKeys("behavior"))}
ThemeChoices(d) == {[d EXCEPT !.theme = t] : t \in Themes} \cup {DefaultsForKeys(d, PanelKeys("theme"))}
PanelChoices(p, d) == CASE p = "list" -> ListChoices(d) [] p = "fields" -> FieldChoices(d)
                   [] p = "behavior" -> BehaviorChoices(d) [] p = "theme" -> ThemeChoices(d)

Clamp(n) == IF n < Interval.min THEN Interval.min ELSE IF n > Interval.max THEN Interval.max ELSE n
\* The items of a category: its switch, and its number one step up.
CategoryItems(c) == {[c EXCEPT !.sync = ~@], [c EXCEPT !.interval = Clamp(@ + Interval.step)]}

\* The keys also go one step down and reset the category.
CategoryChoices(c) ==
  CategoryItems(c) \cup {[c EXCEPT !.interval = Clamp(@ - Interval.step)],
                         [c EXCEPT !.sync = ConfigDefaults.sync, !.interval = ConfigDefaults.interval]}
\* The experimental panel bounds the interval only on the side it moves to.
ExperimentalChoices(c) == {[c EXCEPT !.guardian = ~@],
                           [c EXCEPT !.interval = IF @ - Interval.step < Interval.min THEN Interval.min ELSE @ - Interval.step],
                           [c EXCEPT !.interval = IF @ + Interval.step > Interval.max THEN Interval.max ELSE @ + Interval.step]}

-----------------------------------------------------------------------------
(***************************************************************************)
(* The hub and its panels.                                                 *)
(***************************************************************************)

Opens == \E p \in DashPanels \cup {"experimental", "backend"} :
  /\ menu.pc = "hub" /\ tally.edits < MaxMenuEdits
  /\ menu' = [menu EXCEPT !.pc = p]
  /\ UNCHANGED <<saved, themeOn, tally, settled, asked, blind, adopted>>
Leaves ==
  /\ menu.pc = "hub"
  /\ menu' = [menu EXCEPT !.pc = "left"]
  /\ UNCHANGED <<saved, themeOn, tally, settled, asked, blind, adopted>>

\* A theme is shown as it is chosen.
PanelEdits == \E d \in IF menu.pc \in DashPanels THEN PanelChoices(menu.pc, menu.draft) ELSE {} :
  /\ tally.edits < MaxMenuEdits
  /\ menu' = [menu EXCEPT !.draft = d]
  /\ themeOn' = IF menu.pc = "theme" THEN d.theme ELSE themeOn
  /\ tally' = [tally EXCEPT !.edits = @ + 1]
  /\ UNCHANGED <<saved, settled, asked, blind, adopted>>
EditsConfig == \E c \in CASE menu.pc = "category" -> CategoryChoices(menu.cdraft)
                          [] menu.pc = "experimental" -> ExperimentalChoices(menu.cdraft)
                          [] menu.pc = "backend" -> {ConfigDefaults}
                          [] OTHER -> {} :
  /\ tally.edits < MaxMenuEdits
  /\ menu' = [menu EXCEPT !.cdraft = c]
  /\ tally' = [tally EXCEPT !.edits = @ + 1]
  /\ UNCHANGED <<saved, themeOn, settled, asked, blind, adopted>>
\* A category is left with its edits in the draft; only the menu above saves.
Category ==
  /\ \/ menu.pc = "backend" /\ menu' = [menu EXCEPT !.pc = "category"]
     \/ menu.pc = "category" /\ menu' = [menu EXCEPT !.pc = "backend"]
  /\ UNCHANGED <<saved, themeOn, tally, settled, asked, blind, adopted>>

DraftTheme == menu.draft.theme
BaselineTheme == menu.cur.theme
Cancels ==
  /\ menu.pc \in DashPanels \cup {"experimental", "backend"}
  /\ menu' = Back(menu.cur, menu.cfg)
  /\ themeOn' = IF menu.pc = "theme" THEN BaselineTheme ELSE themeOn
  /\ UNCHANGED <<saved, tally, settled, asked, blind, adopted>>

\* A draft that equals what the hub has is not saved.
Confirms ==
  /\ menu.pc \in DashPanels
  /\ menu' = IF DashEqual(menu.draft, menu.cur) THEN Back(menu.cur, menu.cfg)
             ELSE [menu EXCEPT !.pc = "load", !.scope = menu.pc, !.tries = 0]
  /\ UNCHANGED <<saved, themeOn, tally, settled, asked, blind, adopted>>
\* buildBackendConfigPatch: the patch carries every setting of the draft, clamped.
PatchUnclamped(c) == c
Patch(c) == [c EXCEPT !.interval = Clamp(@)]
ConfirmsConfig ==
  /\ menu.pc \in {"experimental", "backend"}
  /\ IF ConfigEqual(menu.cdraft, menu.cfg)
     THEN menu' = Back(menu.cur, menu.cfg) /\ UNCHANGED asked
     ELSE /\ menu' = [menu EXCEPT !.pc = "patch", !.scope = menu.pc, !.tries = 0]
          /\ asked' = [k \in ConfigKeys |-> asked[k] \cup {IF k = "interval" THEN Clamp(menu.cdraft[k]) ELSE menu.cdraft[k]}]
  /\ UNCHANGED <<saved, themeOn, tally, settled, blind, adopted>>

-----------------------------------------------------------------------------
(***************************************************************************)
(* Saving, under the write queue of the file.                              *)
(***************************************************************************)

\* loadDashboardDisplaySettings: a file that cannot be read counts as defaults.
Reloads == \E readable \in BOOLEAN :
  /\ menu.pc = "load"
  /\ menu' = [menu EXCEPT !.pc = "write", !.base = IF readable THEN NormalizeDash(saved.dash) ELSE DashDefaults]
  /\ blind' = (blind \/ ~readable)
  /\ UNCHANGED <<saved, themeOn, tally, settled, asked, adopted>>

\* The controller of the list and of the fields applies the theme of what it
\* saved, and the hub that of a saved theme; the behaviour panel applies none.
Writes ==
  LET merged == NormalizeDash(MergeForKeys(menu.base, menu.draft, PanelKeys(menu.scope)))
  IN /\ menu.pc = "write"
     /\ saved' = [saved EXCEPT !.dash = merged]
     /\ menu' = Back(merged, menu.cfg)
     /\ themeOn' = IF menu.scope = "behavior" THEN themeOn ELSE merged.theme
     /\ adopted' = (menu.scope = "behavior" /\ (adopted \/ merged.theme # menu.cur.theme))
     /\ settled' = Chosen(menu.draft, PanelKeys(menu.scope))
     /\ blind' = (blind \/ menu.base # saved.dash)
     /\ UNCHANGED <<tally, asked>>
WritesPatch ==
  /\ menu.pc = "patch"
  /\ saved' = [saved EXCEPT !.cfg = Patch(menu.cdraft)]
  /\ menu' = Back(menu.cur, menu.cdraft)
  /\ UNCHANGED <<themeOn, tally, settled, asked, blind, adopted>>

\* A busy file is tried again from the reload; any other error, or the last
\* try, warns and leaves the hub with the draft.
GivesUp(dash, cfg) ==
  /\ menu' = Back(dash, cfg)
  /\ themeOn' = IF menu.scope \in {"list", "fields", "theme"} THEN menu.draft.theme ELSE themeOn
WriteFails == \E busy \in BOOLEAN :
  /\ menu.pc \in {"write", "patch"}
  /\ IF busy /\ menu.tries < WriteAttempts - 1
     THEN /\ menu' = [menu EXCEPT !.tries = @ + 1, !.pc = IF @ = "write" THEN "load" ELSE @]
          /\ UNCHANGED themeOn
     ELSE IF menu.pc = "write" THEN GivesUp(menu.draft, menu.cfg)
     ELSE GivesUp(menu.cur, menu.cdraft)
  /\ UNCHANGED <<saved, tally, settled, asked, blind, adopted>>

\* Another menu saves a panel of its own.
OtherSaves == \E p \in OtherPanels : \E d \in PanelChoices(p, saved.dash) :
  /\ tally.others < MaxOtherSaves
  /\ saved' = [saved EXCEPT !.dash = MergeForKeys(saved.dash, d, PanelKeys(p))]
  /\ settled' = Chosen(d, PanelKeys(p))
  /\ tally' = [tally EXCEPT !.others = @ + 1]
  /\ UNCHANGED <<menu, themeOn, asked, blind, adopted>>

HubNext == Opens \/ Leaves \/ PanelEdits \/ EditsConfig \/ Category \/ Cancels \/ Confirms \/ ConfirmsConfig
           \/ Reloads \/ Writes \/ WritesPatch \/ WriteFails \/ OtherSaves

-----------------------------------------------------------------------------
(***************************************************************************)
(* Properties.                                                             *)
(***************************************************************************)

\* A key of the dashboard holds what the last successful save of a panel that
\* owns it chose, in whichever menu: a panel writes no key of another panel, not
\* even one whose own save failed and whose draft the hub still shows
\* (persistDashboardSettingsSelection).  Excused: a save whose reload could not
\* read the file, and one that another menu's save overtook.
PanelsKeepToTheirKeys == ~blind => saved.dash = settled

\* No value reaches the configuration that the user did not save from a panel:
\* the edits of a cancelled backend menu, made in however many categories, and
\* a number outside its range stay out (promptBackendSettingsMenu, buildBackendConfigPatch).
OnlyAskedConfig == \A k \in ConfigKeys : saved.cfg[k] \in asked[k]

\* Back in the hub the terminal shows the theme the hub has, never that of a
\* draft that was cancelled (promptThemeSettingsPanel), but for a theme that
\* another menu saved and a save of the behaviour panel brought in.
ThemeIsCurrent == menu.pc = "hub" => themeOn = menu.cur.theme \/ adopted
=============================================================================
