-------------------------------- MODULE Drafts --------------------------------
(***************************************************************************)
(* The dialogs of /add-destination in the discord-bot, kept in memory by     *)
(* PendingDestinationStore, and the destinations the api creates from them.  *)
(*                                                                         *)
(* A press is one press of the Accept button; each action is what a handler  *)
(* does up to its next await.  The dialogs are ephemeral, so who presses is  *)
(* who began.  What createDiscordNotification does is in NotificationBilling. *)
(***************************************************************************)
CONSTANTS
  Tokens,       \* one for each use of the command
  Contents,     \* what the fields of the modal may hold
  Default,      \* DEFAULT_EMBED_DRAFT
  Presses,      \* presses of Accept, each used once
  Null

ASSUME DraftConstants ==
  Default \in Contents /\ Null \notin Contents \cup Tokens

VARIABLES
  dialog,       \* of every token; Null before the command
  press

dialogVars == <<dialog, press>>

-----------------------------------------------------------------------------

\* live: the store has the entry (and one timer for it).  The handlers hold the
\* entry itself, so its draft outlives it.  modal: the modal is on the screen;
\* shown: the message with its two buttons has been.
Dialog == [live: BOOLEAN, draft: Contents, modal: BOOLEAN, shown: BOOLEAN]

ASSUME NullOK == Null \notin Dialog

\* seen: the draft when Accept was pressed; sent: the one the api was given;
\* beside: the presses of the same draft that were in flight then; edited: the
\* draft was edited before Discord had acknowledged the press.
Press == [pc: {"none", "defer", "call", "done", "expired"}, token: Tokens \cup {Null},
          seen: Contents \cup {Null}, sent: Contents \cup {Null},
          created: BOOLEAN, beside: SUBSET Presses, edited: BOOLEAN]

NoPress == [pc |-> "none", token |-> Null, seen |-> Null, sent |-> Null,
            created |-> FALSE, beside |-> {}, edited |-> FALSE]

Begun(k) == dialog[k] # Null
Live(k) == Begun(k) /\ dialog[k].live

InFlight(k) == {p \in Presses : press[p].token = k /\ press[p].pc \in {"defer", "call"}}

\* The store: create, update and delete.
Created(draft) == [live |-> TRUE, draft |-> draft, modal |-> FALSE, shown |-> FALSE]
Updated(k, draft) == IF Live(k) THEN [dialog[k] EXCEPT !.draft = draft] ELSE dialog[k]
Delete(k) == dialog' = [dialog EXCEPT ![k].live = FALSE]

\* buildEmbedConfigModal: the modal with the fields of the draft.
ShowModal(k, entry) == dialog' = [dialog EXCEPT ![k] = [entry EXCEPT !.modal = TRUE]]

-----------------------------------------------------------------------------
(* The bot                                                                  *)

\* AddDestinationCommand.handle
AddDestination(k) ==
  /\ ~Begun(k)
  /\ ShowModal(k, Created(Default))
  /\ UNCHANGED press

\* AddDestinationModalHandler.handle: an entry that is gone is not made again.
SubmitModal(k, c) ==
  /\ Begun(k) /\ dialog[k].modal
  /\ dialog' = [dialog EXCEPT ![k] = [Updated(k, c) EXCEPT !.modal = FALSE,
                                                          !.shown = @ \/ Live(k)]]
  /\ IF Live(k)
     THEN press' = [p \in Presses |->
                      IF press[p].token = k /\ press[p].pc = "defer"
                      THEN [press[p] EXCEPT !.edited = TRUE] ELSE press[p]]
     ELSE UNCHANGED press

\* handleEdit
HandleEdit(k) ==
  /\ Live(k) /\ dialog[k].shown
  /\ ShowModal(k, dialog[k])
  /\ UNCHANGED press

\* handleAccept up to deferUpdate.  The message loses its buttons with the
\* answer; a press made before may come later.
HandleAccept(p, k) ==
  /\ press[p].pc = "none"
  /\ Begun(k) /\ dialog[k].shown
  /\ press' = [press EXCEPT ![p] =
       IF Live(k) THEN [NoPress EXCEPT !.pc = "defer", !.token = k, !.seen = dialog[k].draft,
                                       !.beside = InFlight(k)]
       ELSE [NoPress EXCEPT !.pc = "expired", !.token = k]]
  /\ UNCHANGED dialog

DeferredReloads(p) ==
  LET k == press[p].token
  IN  /\ press[p].pc = "defer"
      /\ press' = [press EXCEPT ![p].pc = "call",
                                ![p].sent = IF Live(k) THEN dialog[k].draft ELSE Default]
      /\ UNCHANGED dialog

\* The entry's draft is read when Discord has acknowledged the press.
Deferred(p) ==
  /\ press[p].pc = "defer"
  /\ press' = [press EXCEPT ![p].pc = "call", ![p].sent = dialog[press[p].token].draft]
  /\ UNCHANGED dialog

\* callSafe returns what the api answered or, 8 s later, that it did not.
Returned(p) == press[p].pc = "call"

AnswerKeepsFailed(p) ==
  /\ Returned(p)
  /\ press' = [press EXCEPT ![p].pc = "done"]
  /\ IF press[p].created THEN Delete(press[p].token) ELSE UNCHANGED dialog

\* The rest of handleAccept: the entry is deleted whatever was answered.
Answer(p) ==
  /\ Returned(p)
  /\ press' = [press EXCEPT ![p].pc = "done"]
  /\ Delete(press[p].token)

\* scheduleExpiry: 15 minutes after the command or the last edit.
Expire(k) ==
  /\ Live(k)
  /\ Delete(k)
  /\ UNCHANGED press

\* The bot ends: at a rejection nobody handles, or for any other reason.
LoseDrafts ==
  /\ dialog' = [k \in Tokens |->
                  IF Begun(k) THEN [dialog[k] EXCEPT !.live = FALSE] ELSE Null]
  /\ press' = [p \in Presses |->
                 IF press[p].pc \in {"defer", "call"} THEN [press[p] EXCEPT !.pc = "done"]
                 ELSE press[p]]

-----------------------------------------------------------------------------
(* The api                                                                  *)

\* AddDestinationHandler.handle creates and charges, however late the request
\* is; a request that is refused or lost stays as it is.
CreateDestination(p) ==
  /\ press[p].sent # Null /\ ~press[p].created
  /\ press' = [press EXCEPT ![p].created = TRUE]
  /\ UNCHANGED dialog

-----------------------------------------------------------------------------

InitDialogs ==
  /\ dialog = [k \in Tokens |-> Null]
  /\ press = [p \in Presses |-> NoPress]

Interaction ==
  \/ \E k \in Tokens : \/ HandleEdit(k)
                       \/ \E c \in Contents : SubmitModal(k, c)
                       \/ \E p \in Presses : HandleAccept(p, k)
  \/ \E p \in Presses : Deferred(p) \/ Answer(p)
  \/ \E k \in Tokens : Expire(k)

DialogsOK ==
  /\ dialog \in [Tokens -> Dialog \cup {Null}]
  /\ press \in [Presses -> Press]
  /\ \A p \in Presses : press[p].pc # "none" =>
       press[p].token \in Tokens /\ Begun(press[p].token)

-----------------------------------------------------------------------------
(* Properties                                                               *)

\* "Subscription added" is true once: a draft creates, and charges for, a second
\* destination only if Accept was pressed again before the first press was
\* answered, however late the api comes, whatever is edited or expires.
CreatedOnce ==
  \A p, q \in Presses :
    p # q /\ press[p].created /\ press[q].created /\ press[p].token = press[q].token =>
      p \in press[q].beside \/ q \in press[p].beside

\* The api is given the draft that was on the screen when Accept was pressed,
\* unless it was edited before Discord acknowledged the press; that the draft
\* expires meanwhile changes nothing.
AcceptedAsShown ==
  \A p \in Presses : press[p].sent # Null => press[p].sent = press[p].seen \/ press[p].edited
=============================================================================
