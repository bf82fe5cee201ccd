----------------------------- MODULE MCWorkspace -----------------------------
(***************************************************************************)
(* Instances for TLC of the parts of the main window, of the files they    *)
(* save, and of what surrounds it: the launches it takes in, the settings  *)
(* it shares with other windows, the pool of SQL Server sessions under its *)
(* tabs, and the policy over them.  The parts share no variable, so a      *)
(* behaviour follows one of them, chosen at the start, while the others    *)
(* stand still: interleaving them would multiply the states and show       *)
(* nothing more.  The sessions are followed twice, under different bounds. *)
(***************************************************************************)
EXTENDS MCStateFile, MCLaunchIntents, MCPolicyDecisions, Sessions, TableTab, SideEditor,
        OriginSync, SchemaCache, AiTurns, Updates, Preferences, SessionPool, PolicyReload

CONSTANTS c1, c2, v1  \* members of Conns and Views

VARIABLE focus  \* the part a behaviour follows

Parts == {"Connections", "DatabaseViews", "TableTab", "SideEditor", "OriginSync",
          "SchemaCache", "AiTurns", "Updates", "StateFile", "LaunchIntents", "Preferences",
          "SessionPool", "PolicyDecisions", "PolicyReload"}

\* The only view is one of the first connection's databases.
ViewOfFirst == v1 :> c1

AnyOf(S) == CHOOSE x \in S : TRUE

\* What a filter keeps is what the library's keeps, of lists up to a bound.
ASSUME FilterIsSelectSeq ==
  \A s \in UNION {[1..n -> {Note, ToolCall(1), ToolResult(1)}] : n \in 0..4} :
    \A kind \in {TextPart, ToolPart} :
      OfKind(s, kind) = SelectSeq(s, LAMBDA part : part \in kind)

\* A part that stands still does so in one of its initial states.
Rest ==
  /\ focus # "TableTab" => asked.pred = AnyOf(Preds) /\ asked.order = AnyOf(Orders)
  /\ focus # "SideEditor" =>
       /\ front = AnyOf(EditTabs)
       /\ stored = [c \in Targets |-> AnyOf(Texts)]
  /\ focus # "OriginSync" => owner = [p \in Profiles |-> AnyOf(Origins)]
  /\ focus # "StateFile" => underLock
  /\ focus # "LaunchIntents" => cliDefault = "ask" /\ activeEnv[Main] = home
  /\ focus # "PolicyReload" => anchor.kind = "none"

\* Bound: the program starts without a policy or with one in a file that parses, which the
\* first read may still miss.
StartsInOrder == anchor.kind = "none" \/ (anchor.kind = "file" /\ anchor.doc # NoDocument)

WorkspaceInit ==
  /\ focus \in Parts
  /\ SessionsInit /\ TableTabInit /\ SideEditorInit /\ OriginSyncInit
  /\ SchemaCacheInit /\ AiTurnsInit /\ UpdatesInit /\ Init
  /\ LaunchIntentsInit /\ PreferencesInit /\ SessionPoolInit
  /\ PolicyDecisionsInit /\ PolicyReloadInit
  /\ Rest /\ StartsInOrder

Only(part) == focus = part /\ UNCHANGED focus

windowVars ==
  <<sessionsVars, tableTabVars, sideEditorVars, originSyncVars, schemaCacheVars, aiTurnsVars,
    updatesVars>>
policyVars == <<asker, policyReloadVars>>
aroundVars == <<vars, launchIntentsVars, preferencesVars, sessionPoolVars, policyVars>>

WorkspaceNext ==
  \/ /\ (Only("Connections") \/ Only("DatabaseViews")) /\ SessionsNext
     /\ UNCHANGED <<tableTabVars, sideEditorVars, originSyncVars, schemaCacheVars,
                    aiTurnsVars, updatesVars, aroundVars>>
  \/ /\ Only("TableTab") /\ TableTabNext
     /\ UNCHANGED <<sessionsVars, sideEditorVars, originSyncVars, schemaCacheVars,
                    aiTurnsVars, updatesVars, aroundVars>>
  \/ /\ Only("SideEditor") /\ SideEditorNext
     /\ UNCHANGED <<sessionsVars, tableTabVars, originSyncVars, schemaCacheVars,
                    aiTurnsVars, updatesVars, aroundVars>>
  \/ /\ Only("OriginSync") /\ OriginSyncNext
     /\ UNCHANGED <<sessionsVars, tableTabVars, sideEditorVars, schemaCacheVars,
                    aiTurnsVars, updatesVars, aroundVars>>
  \/ /\ Only("SchemaCache") /\ SchemaCacheNext
     /\ UNCHANGED <<sessionsVars, tableTabVars, sideEditorVars, originSyncVars,
                    aiTurnsVars, updatesVars, aroundVars>>
  \/ /\ Only("AiTurns") /\ AiTurnsNext
     /\ UNCHANGED <<sessionsVars, tableTabVars, sideEditorVars, originSyncVars,
                    schemaCacheVars, updatesVars, aroundVars>>
  \/ /\ Only("Updates") /\ UpdatesNext
     /\ UNCHANGED <<sessionsVars, tableTabVars, sideEditorVars, originSyncVars,
                    schemaCacheVars, aiTurnsVars, aroundVars>>
  \/ /\ Only("StateFile") /\ Next
     /\ UNCHANGED <<windowVars, launchIntentsVars, preferencesVars, sessionPoolVars, policyVars>>
  \/ /\ Only("LaunchIntents") /\ LaunchIntentsNext
     /\ UNCHANGED <<windowVars, vars, preferencesVars, sessionPoolVars, policyVars>>
  \/ /\ Only("Preferences") /\ PreferencesNext
     /\ UNCHANGED <<windowVars, vars, launchIntentsVars, sessionPoolVars, policyVars>>
  \/ /\ Only("SessionPool") /\ SessionPoolNext
     /\ UNCHANGED <<windowVars, vars, launchIntentsVars, preferencesVars, policyVars>>
  \/ /\ Only("PolicyDecisions") /\ PolicyDecisionsNext
     /\ UNCHANGED <<windowVars, vars, launchIntentsVars, preferencesVars, sessionPoolVars,
                    policyReloadVars>>
  \/ /\ Only("PolicyReload") /\ PolicyReloadNext
     /\ UNCHANGED <<windowVars, vars, launchIntentsVars, preferencesVars, sessionPoolVars, asker>>

workspaceVars == <<focus, windowVars, aroundVars>>

WorkspaceSpec == WorkspaceInit /\ [][WorkspaceNext]_workspaceVars

WorkspaceTypeOK ==
  /\ focus \in Parts
  /\ focus \in {"Connections", "DatabaseViews"} => SessionsTypeOK
  /\ focus = "TableTab" => TableTabTypeOK
  /\ focus = "SideEditor" => SideEditorTypeOK
  /\ focus = "OriginSync" => OriginSyncTypeOK
  /\ focus = "SchemaCache" => SchemaCacheTypeOK
  /\ focus = "AiTurns" => AiTurnsTypeOK
  /\ focus = "Updates" => UpdatesTypeOK
  /\ focus = "LaunchIntents" => LaunchIntentsTypeOK
  /\ focus = "Preferences" => PreferencesTypeOK
  /\ focus = "SessionPool" => SessionPoolTypeOK
  /\ focus = "PolicyDecisions" => PolicyDecisionsTypeOK
  /\ focus = "PolicyReload" => PolicyReloadTypeOK

\* Bounds: a session has a second connection or a database view, and a table tab asks for
\* another predicate or another order, but not both in one behaviour.
OneOfTwo ==
  /\ focus = "Connections" => v1 \notin subscribed /\ task[v1] = "idle"
  /\ focus = "DatabaseViews" =>
       c2 \notin active \cup subscribed /\ task[c2] = "idle" /\ closing[c2].pc = "no"
  /\ focus = "TableTab" => asked.pred = AnyOf(Preds) \/ asked.order = AnyOf(Orders)

\* The callers of the session pool are alike: how many are where, and in which order those
\* that wait will be served.
CallersAlike ==
  <<closed, permits, [i \in DOMAIN queue |-> caller[queue[i]]], idle, midway, inTx,
    [r \in {caller[c] : c \in Callers} |-> Cardinality({c \in Callers : caller[c] = r})]>>

\* A window drops the answer to what it asked in an earlier generation, whatever it says, and
\* which of its questions came first makes no difference.
GenerationsApart ==
  LET put(w) == [i \in DOMAIN enquiries[w] |->
        IF enquiries[w][i].gen = panes[w].gen THEN [enquiries[w][i] EXCEPT !.gen = 1]
        ELSE [gen |-> 0, about |-> {}, answer |-> IF enquiries[w][i].answer = Unknown
                                                  THEN Unknown ELSE UnmanagedState]]
  IN <<anchor, inForce, reload, command, announced, policies, wakes,
       [w \in Panes |-> [panes[w] EXCEPT !.gen = 0]],
       [w \in Panes |-> [e \in {put(w)[i] : i \in DOMAIN put(w)} |->
          Cardinality({i \in DOMAIN put(w) : put(w)[i] = e})]]>>

\* What tells two states apart: the part that is followed, the others stand still.
Followed ==
  <<focus, CASE focus \in {"Connections", "DatabaseViews"} -> sessionsVars
             [] focus = "TableTab" -> tableTabVars
             [] focus = "SideEditor" -> sideEditorVars
             [] focus = "OriginSync" -> originSyncVars
             [] focus = "SchemaCache" -> schemaCacheVars
             [] focus = "AiTurns" -> aiTurnsVars
             [] focus = "Updates" -> updatesVars
             [] focus = "StateFile" -> vars
             [] focus = "LaunchIntents" -> launchIntentsVars
             [] focus = "Preferences" -> preferencesVars
             [] focus = "SessionPool" -> CallersAlike
             [] focus = "PolicyDecisions" -> asker
             [] focus = "PolicyReload" -> GenerationsApart>>
=============================================================================
