-------------------------- MODULE MCMirrorWatcher --------------------------
(* Instances for TLC: Downloads with a folder below it that is scanned as a *)
(* root of its own, and the desktop; dispatched with the mirror off or on.  *)
EXTENDS MirrorWatcher, TLC

CONSTANTS setup, torrent, notes,            \* files
          Downloads, Torrents, Desktop      \* roots

TheFiles == {setup, torrent, notes}
TheRoots == {Downloads, Torrents, Desktop}
TheAutoRoots == {Downloads, Torrents}
TheUnder == (setup :> {Downloads}) @@ (torrent :> {Downloads, Torrents}) @@ (notes :> {Desktop})

Scope(on, present, acts, changes, deaths, losses) ==
  [on |-> on, present |-> present, acts |-> acts, changes |-> changes, deaths |-> deaths,
   losses |-> losses]

(* Decisions about a file outside Downloads, with the mirror off or on; then *)
(* the life of files, with deaths, losses and changes.                      *)
Decisions ==
  {Scope(FALSE, {notes}, 3, 0, 1, 0), Scope(TRUE, {notes}, 3, 0, 0, 0),
   Scope(TRUE, {notes}, 2, 0, 1, 0)}
Uploads ==
  {Scope(FALSE, {torrent}, 1, 0, 1, 0), Scope(FALSE, {torrent}, 1, 0, 0, 1),
   Scope(FALSE, {torrent}, 0, 0, 1, 1), Scope(FALSE, {setup}, 0, 2, 0, 0),
   Scope(FALSE, {setup}, 1, 1, 0, 0), Scope(FALSE, {setup}, 0, 1, 1, 0),
   Scope(TRUE, {setup, notes}, 0, 1, 0, 0), Scope(FALSE, {setup, torrent}, 0, 1, 0, 0)}
AllScopes == Decisions \cup Uploads
=============================================================================
