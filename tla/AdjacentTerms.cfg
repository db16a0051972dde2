SPECIFICATION GuardrailSpec
\* The sentence has its last letter.
CHECK_DEADLOCK FALSE
CONSTANTS
    denied = denied
    plain = plain
    Space = Space
    Letters = {denied, plain, Space}
    Terms <- MCTerms
    SafePhrase = SafePhrase
    Mask = Mask
    BlockTenths = 4
    MaxSentence = 6
INVARIANTS
    OnePhraseForAdjacentTerms
