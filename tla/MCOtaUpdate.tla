---------------------------- MODULE MCOtaUpdate ----------------------------
(* Small sets of archives for checking OtaUpdate with TLC.                   *)
EXTENDS OtaUpdate

CONSTANTS v0, v1, v2

Pack(v, parts, whole) == [ver |-> v, parts |-> parts, whole |-> whole]

\* The two parts that have fallbacks, and a package that replaces boot.scr.
MCPackages == {Pack(v1, {BIN, IMG}, TRUE), Pack(v2, {SCR, IMG}, TRUE)}

\* An archive whose upload was cut stands for the first of them.
MCCutPackages == {Pack(v1, {BIN, IMG}, TRUE), Pack(v2, {SCR, IMG}, TRUE), Pack(v2, {IMG}, FALSE)}

\* Two archives of which one lacks a part of the other, and a cut one.
MCLivePackages == {Pack(v1, {BIN, IMG}, TRUE), Pack(v2, {BIN}, TRUE), Pack(v2, {IMG}, FALSE)}
=============================================================================
