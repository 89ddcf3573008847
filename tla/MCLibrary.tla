------------------------------ MODULE MCLibrary ------------------------------
(* Instances of Library for TLC.                                            *)
EXTENDS Integers, Library

\* Spans that carry and borrow, and whole minutes and hours below zero.
MCSpans == [hour: {-25, 0, 1}, min: {-61, 0, 59}, sec: {-60, -13, 125}]

\* The bounds, the default, undefined, and deviations that cross a byte.
MCDeviations == {-720, -721, -60, 0, 255, 720, -32768}

\* An IV of 12 bytes, and one whose hash begins at a counter that wraps.
MCStarts == [iv: {"short"}, ctr: {1}, add: {0, 1, 3}] \cup [iv: {"hashed"}, ctr: {4}, add: {0, 2}]
=============================================================================
