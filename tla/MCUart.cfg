CONSTANTS
    Chars = {"x", "y", "LF"}
    BufferSize = 3
SPECIFICATION Spec
INVARIANTS NoCharacterStuck InterruptHasCharacter
PROPERTIES ImplementsChannel CrBeforeLf CharactersGetOut
