-------------------------- MODULE MCHearingReminders --------------------------
EXTENDS HearingReminders, TLC
\* One pair within a day, one across midnight.
MCQuietHours == {<<24, 29>>, <<28, 3>>}
Symmetry == Permutations(Hearings)
=============================================================================
