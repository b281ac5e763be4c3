---------------------------- MODULE MCIdentities ----------------------------
(* Two people and three names, so that names can be passed on; the scheduler *)
(* and a webhook handler.  Names are interchangeable.                        *)
EXTENDS Identities, TLC

CONSTANTS red, green, blue, scheduler, handler

NamesAlike == Permutations({red, green, blue})
=============================================================================
